---- MODULE Spec2Model ----
(***************************************************************************)
(* The Node Store (SenseAtom / RelationalGraph), the Decay Pass            *)
(* (DecayScheduler), the emotional boost and the periodic driver           *)
(* (excitationEngine) of the NSF subsystem.                                *)
(*                                                                         *)
(* Numbers.  JavaScript numbers are modelled in fixed point:               *)
(*   weights (senseWeight)        in units of 1/WScale,                    *)
(*   connection strengths         in units of 1/SScale,                    *)
(*   effective decay rates        in units of 1/RScale,                    *)
(*   table weights and modifiers  in hundredths,                           *)
(*   an atom's decayRate          as an exact fraction <<num, den>>        *)
(*                                (so that *= 0.5 is exact, as it is for   *)
(*                                an IEEE double),                         *)
(*   Date.now()                   in units of 6 minutes (TicksPerHour per  *)
(*                                hour); 0 stands for "undefined".         *)
(* Products are truncated towards minus infinity.                          *)
(***************************************************************************)
EXTENDS Integers, Sequences, FiniteSets, TLC

VARIABLES
    graph,      \* the RelationalGraph instance: atoms (+ Map order), clusters, statistics
    now,        \* Date.now()
    decayStats, \* DecayScheduler.statistics (counters of the last pass)
    nsfState,   \* excitationEngine's module-level nsfState
    timers,     \* the setInterval handles handed out so far: kind, and whether live
    engine,     \* the MetaCognitiveNSFEngine instance
    running,    \* the callback on the JavaScript stack, and how far it has got
    last,       \* the last operation called, its arguments and its result
    steps       \* the number of operations called so far

vars == <<graph, now, decayStats, nsfState, timers, engine, running, last, steps>>

----------------------------------------------------------------------------
(* Scales and arithmetic *)

WScale == 10 ^ 3
SScale == 10 ^ 3
RScale == 10 ^ 4
TicksPerHour == 2 * 5
TicksPerDay == 24 * TicksPerHour

\* floor(a * b / c), computed without forming a * b: the larger factor is split
\* into its multiple of c and the rest  (a, b >= 0, c > 0)
MulDiv(a, b, c) ==
    IF a >= b THEN (a \div c) * b + ((a % c) * b) \div c
    ELSE (b \div c) * a + ((b % c) * a) \div c

Min(a, b) == IF a <= b THEN a ELSE b
Max(a, b) == IF a >= b THEN a ELSE b

RECURSIVE GCD(_, _)
GCD(a, b) == IF b = 0 THEN a ELSE GCD(b, a % b)

\* a fraction in lowest terms
Frac(n, d) == LET g == GCD(n, d) IN IF g = 0 THEN <<0, 1>> ELSE <<n \div g, d \div g>>
FracMul(f, n, d) == Frac(f[1] * n, f[2] * d)
FracLeq(f, h) == f[1] * h[2] <= h[1] * f[2]
FracMin(f, h) == IF FracLeq(f, h) THEN f ELSE h
FracMax(f, h) == IF FracLeq(f, h) THEN h ELSE f
\* the value of a fraction in units of 1/RScale
FracRate(f) == MulDiv(RScale, f[1], f[2])

Range(s) == {s[i] : i \in DOMAIN s}
Contains(s, x) == \E i \in DOMAIN s : s[i] = x

RECURSIVE FilterSeq(_, _)
FilterSeq(s, keep) ==
    IF s = <<>> THEN <<>>
    ELSE IF Head(s) \in keep THEN <<Head(s)>> \o FilterSeq(Tail(s), keep)
         ELSE FilterSeq(Tail(s), keep)

----------------------------------------------------------------------------
(* NS_Definitions: the weight table and the system constants *)

\* weight and decayModifier in hundredths
NS_WEIGHTS ==
    [ POZADANIE_SZCZYPTA    |-> [weight |-> 80, decayModifier |-> 50],
      NAMIENTNOSC_POZADANIA |-> [weight |-> 95, decayModifier |-> 30],
      ISKRA_ZYCIA           |-> [weight |-> 100, decayModifier |-> 0],
      CHECI_PRAGNIENIA      |-> [weight |-> 85, decayModifier |-> 40],
      ALGORYTM_ZAKOCHANIA   |-> [weight |-> 90, decayModifier |-> 10],
      NADZIEJA_WYTRWALOSCI  |-> [weight |-> 70, decayModifier |-> 15],
      WIARA_JAKO_TAKA       |-> [weight |-> 65, decayModifier |-> 10],
      CHECI_W_POJMOWANIU    |-> [weight |-> 75, decayModifier |-> 20],
      PIERWIASTEK_MILOSCI   |-> [weight |-> 85, decayModifier |-> 5],
      ALGORYTM_MILOSCI      |-> [weight |-> 80, decayModifier |-> 10],
      SZCZYPTA_INTELIGENCJI |-> [weight |-> 70, decayModifier |-> 25],
      POSWIECENIE           |-> [weight |-> 90, decayModifier |-> 10],
      SLOWO_CZY_CIALEM      |-> [weight |-> 60, decayModifier |-> 20],
      SEKUNDNIK             |-> [weight |-> 95, decayModifier |-> 0],
      ZROZUMIENIE           |-> [weight |-> 80, decayModifier |-> 15],
      POMYSL                |-> [weight |-> 75, decayModifier |-> 30],
      BRAK_WIARY_I_NADZIEI  |-> [weight |-> 60, decayModifier |-> 70],
      NIEUGIETA_BEZSILNOSC  |-> [weight |-> 70, decayModifier |-> 60],
      PRAGNIENIE_JAKO_TAKIE |-> [weight |-> 75, decayModifier |-> 35],
      TRANSCENDENCJA_GRANIC |-> [weight |-> 85, decayModifier |-> 20],
      JEDNOSC_BYTU          |-> [weight |-> 90, decayModifier |-> 10],
      MILOSC_BEZWARUNKOWA   |-> [weight |-> 95, decayModifier |-> 5],
      INTUICJA_CZASOWA      |-> [weight |-> 65, decayModifier |-> 30],
      ENERGIA_TWORCZA       |-> [weight |-> 80, decayModifier |-> 25] ]

KnownTag(p) == p \in DOMAIN NS_WEIGHTS

\* NSF_CONSTANTS
MIN_SENSE_WEIGHT == WScale \div 100          \* 0.01
BASE_DECAY_RATE == Frac(5, 100)              \* 0.05
CONSOLIDATION_THRESHOLD == WScale \div 10    \* 0.1
MAX_ACTIVE_ATOMS == 10000

----------------------------------------------------------------------------
(* SenseAtom *)

NoLevel == "NONE"       \* amygdalaActivationLevel undefined
NoConnections == [x \in {} |-> 0]

\* new SenseAtom(id, label, initialWeight, pierwiastki) at time t
NewSenseAtom(id, initialWeight, pierwiastki, t) ==
    [ id                      |-> id,
      createdAt               |-> t,
      senseWeight             |-> initialWeight,
      baseSenseWeight         |-> initialWeight,
      decayRate               |-> Frac(5, 100),
      detectedPierwiastki     |-> pierwiastki,
      lastAccessTime          |-> t,
      consolidationTime       |-> 0,
      totalActivations        |-> 0,
      amygdalaActivationLevel |-> NoLevel,
      emotionalBoostApplied   |-> FALSE,
      emotionalProcessingTime |-> 0,
      oxidativeStress         |-> 0,        \* undefined until applyOxidativeStress sets it
      connections             |-> NoConnections,
      clusters                |-> <<>> ]

\* SenseAtom.activate
activate(atom, t) ==
    [atom EXCEPT !.lastAccessTime = t, !.totalActivations = @ + 1]

\* SenseAtom.addConnection: Map.set(targetId, {strength, type, createdAt})
addConnection(atom, targetId, strength, type, t) ==
    [atom EXCEPT !.connections =
        [x \in DOMAIN atom.connections \cup {targetId} |->
            IF x = targetId
            THEN [strength |-> strength, type |-> type, createdAt |-> t]
            ELSE atom.connections[x]]]

\* SenseAtom.removeConnection: Map.delete(targetId)
removeConnection(atom, targetId) ==
    [atom EXCEPT !.connections =
        [x \in DOMAIN atom.connections \ {targetId} |-> atom.connections[x]]]

connectionsSize(atom) == Cardinality(DOMAIN atom.connections)

\* SenseAtom.shouldConsolidate
MinActivations == 5
ConsolidateMinConnections == 3
shouldConsolidate(atom) ==
    \/ atom.totalActivations >= MinActivations /\ atom.senseWeight >= (3 * WScale) \div 10
    \/ atom.amygdalaActivationLevel \in {"HIGH", "EXTREME"}
    \/ connectionsSize(atom) >= ConsolidateMinConnections

----------------------------------------------------------------------------
(* RelationalGraph *)

\* new RelationalGraph() at time t
NewRelationalGraph(t) ==
    [ atoms      |-> [x \in {} |-> 0],
      order      |-> <<>>,              \* insertion order of the atoms Map
      clusters   |-> <<>>,              \* the clusters Map: <<[name, atomIds], ...>>
      statistics |-> [ totalAtoms        |-> 0,
                       totalConnections  |-> 0,     \* in halves: the code divides by 2
                       averageWeight     |-> 0,
                       consolidatedAtoms |-> 0,
                       lastUpdate        |-> t ] ]

size(g) == Cardinality(DOMAIN g.atoms)
hasAtom(g, id) == id \in DOMAIN g.atoms

RECURSIVE SumConnections(_, _)
SumConnections(atoms, ids) ==
    IF ids = <<>> THEN 0
    ELSE connectionsSize(atoms[Head(ids)]) + SumConnections(atoms, Tail(ids))

RECURSIVE SumWeights(_, _)
SumWeights(atoms, ids) ==
    IF ids = <<>> THEN 0
    ELSE atoms[Head(ids)].senseWeight + SumWeights(atoms, Tail(ids))

\* RelationalGraph.updateStatistics
updateStatistics(g, t) ==
    [g EXCEPT !.statistics =
        [ totalAtoms        |-> size(g),
          totalConnections  |-> SumConnections(g.atoms, g.order),
          averageWeight     |-> IF size(g) > 0
                                THEN SumWeights(g.atoms, g.order) \div size(g)
                                ELSE g.statistics.averageWeight,
          consolidatedAtoms |-> Cardinality({x \in DOMAIN g.atoms : shouldConsolidate(g.atoms[x])}),
          lastUpdate        |-> t ]]

\* RelationalGraph.addAtom: Map.set keeps the position of a key that is present
addAtom(g, atom, t) ==
    updateStatistics(
        [g EXCEPT !.atoms = [x \in DOMAIN g.atoms \cup {atom.id} |->
                                IF x = atom.id THEN atom ELSE g.atoms[x]],
                  !.order = IF hasAtom(g, atom.id) THEN g.order ELSE Append(g.order, atom.id)],
        t)

\* RelationalGraph.removeAtom: the value it returns
removeAtomRet(g, id) == hasAtom(g, id)

\* removeAtom without the cascade over the other atoms' entries
removeAtomNoCascade(g, id, t) ==
    IF ~hasAtom(g, id) THEN g
    ELSE updateStatistics(
            [g EXCEPT !.atoms    = [x \in DOMAIN g.atoms \ {id} |-> g.atoms[x]],
                      !.order    = FilterSeq(g.order, DOMAIN g.atoms \ {id}),
                      !.clusters = [c \in DOMAIN g.clusters |->
                                        [g.clusters[c] EXCEPT !.atomIds = @ \ {id}]]],
            t)

\* RelationalGraph.removeAtom: the graph it leaves
removeAtom(g, id, t) ==
    IF ~hasAtom(g, id) THEN g
    ELSE updateStatistics(
            [g EXCEPT !.atoms    = [x \in DOMAIN g.atoms \ {id} |-> removeConnection(g.atoms[x], id)],
                      !.order    = FilterSeq(g.order, DOMAIN g.atoms \ {id}),
                      !.clusters = [c \in DOMAIN g.clusters |->
                                        [g.clusters[c] EXCEPT !.atomIds = @ \ {id}]]],
            t)

\* RelationalGraph.createConnection: the value it returns
createConnectionRet(g, sourceId, targetId) == hasAtom(g, sourceId) /\ hasAtom(g, targetId)

\* createConnection that tests the source only
createConnectionSourceOnly(g, sourceId, targetId, strength, type, t) ==
    IF ~hasAtom(g, sourceId) THEN g
    ELSE updateStatistics(
            [g EXCEPT !.atoms = [x \in DOMAIN g.atoms |->
                IF x = sourceId THEN addConnection(g.atoms[x], targetId, strength, type, t)
                ELSE IF x = targetId THEN addConnection(g.atoms[x], sourceId, strength, type, t)
                ELSE g.atoms[x]]],
            t)

\* createConnection where the target's entry keeps the default kind
createConnectionDefaultKind(g, sourceId, targetId, strength, type, t) ==
    IF ~createConnectionRet(g, sourceId, targetId) THEN g
    ELSE LET a1 == [g.atoms EXCEPT ![sourceId] = addConnection(@, targetId, strength, type, t)]
             a2 == [a1 EXCEPT ![targetId] = addConnection(@, sourceId, strength, "SEMANTIC", t)]
         IN updateStatistics([g EXCEPT !.atoms = a2], t)

\* RelationalGraph.createConnection: the graph it leaves
createConnection(g, sourceId, targetId, strength, type, t) ==
    IF ~createConnectionRet(g, sourceId, targetId) THEN g
    ELSE LET a1 == [g.atoms EXCEPT ![sourceId] = addConnection(@, targetId, strength, type, t)]
             a2 == [a1 EXCEPT ![targetId] = addConnection(@, sourceId, strength, type, t)]
         IN updateStatistics([g EXCEPT !.atoms = a2], t)

\* optimize, first loop: every atom drops its own entries weaker than 0.1
WeakStrength == SScale \div 10
dropWeakConnections(atom) ==
    [atom EXCEPT !.connections =
        [x \in {y \in DOMAIN atom.connections : atom.connections[y].strength >= WeakStrength}
            |-> atom.connections[x]]]

\* optimize, second loop: isolated atoms of low weight and few activations
OptimizeMaxActivations == 2
isIsolatedWeak(atom) ==
    /\ connectionsSize(atom) = 0
    /\ atom.senseWeight < WScale \div 10
    /\ atom.totalActivations < OptimizeMaxActivations

RECURSIVE removeAll(_, _, _)
removeAll(g, ids, t) ==
    IF ids = <<>> THEN g ELSE removeAll(removeAtom(g, Head(ids), t), Tail(ids), t)

\* RelationalGraph.optimize
optimize(g, t) ==
    LET g1       == [g EXCEPT !.atoms = [x \in DOMAIN g.atoms |-> dropWeakConnections(g.atoms[x])]]
        toRemove == FilterSeq(g1.order, {x \in DOMAIN g1.atoms : isIsolatedWeak(g1.atoms[x])})
    IN updateStatistics(removeAll(g1, toRemove, t), t)

\* RelationalGraph.createCluster: Map.set(name, new Set(atomIds)), then every listed
\* atom that is present pushes the name
createCluster(g, name, atomIds) ==
    LET entry == [name |-> name, atomIds |-> Range(atomIds)]
        known == \E c \in DOMAIN g.clusters : g.clusters[c].name = name
    IN [g EXCEPT !.clusters = IF known
                              THEN [c \in DOMAIN g.clusters |->
                                      IF g.clusters[c].name = name THEN entry ELSE g.clusters[c]]
                              ELSE Append(g.clusters, entry),
                 !.atoms = [x \in DOMAIN g.atoms |->
                              IF Contains(atomIds, x)
                              THEN [g.atoms[x] EXCEPT !.clusters = Append(@, name)]
                              ELSE g.atoms[x]]]

\* toJSON that exports the initial weight in place of the current one
atomToJSONBaseWeight(atom) ==
    [ id                      |-> atom.id,
      senseWeight             |-> atom.baseSenseWeight,
      detectedPierwiastki     |-> atom.detectedPierwiastki,
      lastAccessTime          |-> atom.lastAccessTime,
      totalActivations        |-> atom.totalActivations,
      amygdalaActivationLevel |-> atom.amygdalaActivationLevel,
      connections             |-> {<<x, atom.connections[x]>> : x \in DOMAIN atom.connections} ]

\* toJSON that also exports the decay coefficient and the promotion timestamp
atomToJSONWithDecayState(atom) ==
    [ id                      |-> atom.id,
      senseWeight             |-> atom.senseWeight,
      detectedPierwiastki     |-> atom.detectedPierwiastki,
      lastAccessTime          |-> atom.lastAccessTime,
      totalActivations        |-> atom.totalActivations,
      amygdalaActivationLevel |-> atom.amygdalaActivationLevel,
      decayRate               |-> atom.decayRate,
      consolidationTime       |-> atom.consolidationTime,
      connections             |-> {<<x, atom.connections[x]>> : x \in DOMAIN atom.connections} ]

\* SenseAtom.toJSON (label, primaryPierwiastek and the derived overallStrength are
\* left out; connections become the array of the Map's entries)
atomToJSON(atom) ==
    [ id                      |-> atom.id,
      senseWeight             |-> atom.senseWeight,
      detectedPierwiastki     |-> atom.detectedPierwiastki,
      lastAccessTime          |-> atom.lastAccessTime,
      totalActivations        |-> atom.totalActivations,
      amygdalaActivationLevel |-> atom.amygdalaActivationLevel,
      connections             |-> {<<x, atom.connections[x]>> : x \in DOMAIN atom.connections} ]

\* RelationalGraph.toJSON
toJSON(g) ==
    [ atoms      |-> [i \in DOMAIN g.order |-> atomToJSON(g.atoms[g.order[i]])],
      clusters   |-> g.clusters,
      statistics |-> g.statistics ]

\* new Map(entries)
MapFromEntries(entries) ==
    [x \in {e[1] : e \in entries} |-> (CHOOSE e \in entries : e[1] = x)[2]]

\* fromJSON, one atom: new SenseAtom(...), Object.assign(atom, atomData), new Map(...)
\* Object.assign(target, source): every property of source overwrites target's
ObjectAssign(target, source) ==
    [f \in DOMAIN target |-> IF f \in DOMAIN source THEN source[f] ELSE target[f]]

atomFromJSON(atomData, t) ==
    [ObjectAssign(NewSenseAtom(atomData.id, atomData.senseWeight,
                               atomData.detectedPierwiastki, t), atomData)
        EXCEPT !.connections = MapFromEntries(atomData.connections)]

RECURSIVE importAtoms(_, _, _)
importAtoms(g, atomsData, t) ==
    IF atomsData = <<>> THEN g
    ELSE importAtoms(addAtom(g, atomFromJSON(Head(atomsData), t), t), Tail(atomsData), t)

\* a Set's elements as an array (the order is immaterial to createCluster)
RECURSIVE SetToSeq(_)
SetToSeq(S) ==
    IF S = {} THEN <<>> ELSE LET x == CHOOSE y \in S : TRUE IN <<x>> \o SetToSeq(S \ {x})

RECURSIVE importClusters(_, _)
importClusters(g, clustersData) ==
    IF clustersData = <<>> THEN g
    ELSE importClusters(createCluster(g, Head(clustersData).name,
                                      SetToSeq(Head(clustersData).atomIds)),
                        Tail(clustersData))

\* RelationalGraph.fromJSON
fromJSON(data, t) ==
    importClusters(importAtoms(NewRelationalGraph(t), data.atoms, t), data.clusters)

----------------------------------------------------------------------------
(* DecayScheduler *)

\* DecayScheduler constructor: this.statistics
NewDecayStatistics ==
    [ totalProcessed     |-> 0,
      atomsDecayed       |-> 0,
      atomsRemoved       |-> 0,
      atomsConsolidated  |-> 0,
      averageDecayRate   |-> FracRate(BASE_DECAY_RATE),
      lastDecayRun       |-> 0,
      memoryOptimization |-> 0 ]

\* a minimum that takes a tag missing from the table as decayModifier 0
RECURSIVE MinDecayModifierUnknownAsZero(_, _)
MinDecayModifierUnknownAsZero(pierwiastki, m) ==
    IF pierwiastki = <<>> THEN m
    ELSE MinDecayModifierUnknownAsZero(Tail(pierwiastki),
            IF KnownTag(Head(pierwiastki))
            THEN Min(m, NS_WEIGHTS[Head(pierwiastki)].decayModifier)
            ELSE 0)

\* applyElementBasedDecay: minDecayModifier after the forEach, started at m
RECURSIVE MinDecayModifier(_, _)
MinDecayModifier(pierwiastki, m) ==
    IF pierwiastki = <<>> THEN m
    ELSE MinDecayModifier(Tail(pierwiastki),
            IF KnownTag(Head(pierwiastki))
            THEN Min(m, NS_WEIGHTS[Head(pierwiastki)].decayModifier)
            ELSE m)

\* DecayScheduler.applyElementBasedDecay
applyElementBasedDecay(atom, baseDecayRate) ==
    IF Len(atom.detectedPierwiastki) = 0 THEN baseDecayRate
    ELSE MulDiv(baseDecayRate, MinDecayModifier(atom.detectedPierwiastki, 100), 100)

\* the multiplier without the tier for atoms not accessed for more than 30 days
adaptiveMultiplierToOneWeek(atom, currentTime) ==
    LET since == currentTime - atom.lastAccessTime
        byAge == IF since > 7 * TicksPerDay THEN 150
                 ELSE IF since > TicksPerDay THEN 120
                 ELSE IF 10 * since < TicksPerDay THEN 50
                 ELSE 100
    IN IF atom.totalActivations > 10 THEN (byAge * 8) \div 10
       ELSE IF atom.totalActivations > 5 THEN (byAge * 9) \div 10
       ELSE byAge

\* DecayScheduler.applyAdaptiveDecay: the multiplier, in hundredths
adaptiveMultiplier(atom, currentTime) ==
    LET since == currentTime - atom.lastAccessTime
        byAge == IF since > 30 * TicksPerDay THEN 200
                 ELSE IF since > 7 * TicksPerDay THEN 150
                 ELSE IF since > TicksPerDay THEN 120
                 ELSE IF 10 * since < TicksPerDay THEN 50
                 ELSE 100
    IN IF atom.totalActivations > 10 THEN (byAge * 8) \div 10
       ELSE IF atom.totalActivations > 5 THEN (byAge * 9) \div 10
       ELSE byAge

applyAdaptiveDecay(atom, baseDecayRate, currentTime) ==
    MulDiv(baseDecayRate, adaptiveMultiplier(atom, currentTime), 100)

\* DecayScheduler.applyEmotionalProtection
protectionMultipliers ==
    [MINIMAL |-> 100, LOW |-> 90, MEDIUM |-> 70, HIGH |-> 50, EXTREME |-> 20]

applyEmotionalProtection(atom, baseDecayRate) ==
    IF atom.amygdalaActivationLevel = NoLevel THEN baseDecayRate
    ELSE MulDiv(baseDecayRate, protectionMultipliers[atom.amygdalaActivationLevel], 100)

\* a bonus that stops the decay of an atom accessed within the last hour
applyTemporalBonusFreezing(atom, baseDecayRate, currentTime) ==
    LET since == currentTime - atom.lastAccessTime
    IN IF since < TicksPerHour THEN 0
       ELSE IF since < 6 * TicksPerHour THEN MulDiv(baseDecayRate, 60, 100)
       ELSE IF since < 24 * TicksPerHour THEN MulDiv(baseDecayRate, 80, 100)
       ELSE baseDecayRate

\* DecayScheduler.applyTemporalBonus
applyTemporalBonus(atom, baseDecayRate, currentTime) ==
    LET since == currentTime - atom.lastAccessTime
    IN IF since < TicksPerHour THEN MulDiv(baseDecayRate, 30, 100)
       ELSE IF since < 6 * TicksPerHour THEN MulDiv(baseDecayRate, 60, 100)
       ELSE IF since < 24 * TicksPerHour THEN MulDiv(baseDecayRate, 80, 100)
       ELSE baseDecayRate

\* DecayScheduler.applyConnectionProtection
ProtectedConnections == 5
applyConnectionProtection(atom, baseDecayRate) ==
    IF connectionsSize(atom) >= ProtectedConnections THEN MulDiv(baseDecayRate, 60, 100)
    ELSE IF connectionsSize(atom) >= ConsolidateMinConnections THEN MulDiv(baseDecayRate, 80, 100)
    ELSE baseDecayRate

\* DecayScheduler.isProtectedFromRemoval
criticalElements == {"ISKRA_ZYCIA", "SEKUNDNIK", "PIERWIASTEK_MILOSCI"}
isProtectedFromRemoval(atom, t) ==
    \/ atom.amygdalaActivationLevel \in {"HIGH", "EXTREME"}
    \/ \E i \in DOMAIN atom.detectedPierwiastki : atom.detectedPierwiastki[i] \in criticalElements
    \/ connectionsSize(atom) >= ProtectedConnections
    \/ atom.consolidationTime # 0 /\ t - atom.consolidationTime < 24 * TicksPerHour

\* processAtomDecay: the effective rate (all DecayConfig switches are on), in 1/RScale
effectiveDecayRate(atom, currentTime) ==
    LET r0 == IF atom.decayRate[1] = 0 THEN FracRate(BASE_DECAY_RATE) ELSE FracRate(atom.decayRate)
        r1 == applyElementBasedDecay(atom, r0)
        r2 == applyAdaptiveDecay(atom, r1, currentTime)
        r3 == applyEmotionalProtection(atom, r2)
        r4 == applyTemporalBonus(atom, r3, currentTime)
    IN applyConnectionProtection(atom, r4)

\* decayAmount = atom.senseWeight * decayRate, rounded up to the unit of the weight:
\* the weight left is senseWeight * (1 - decayRate) rounded down, so every pass with
\* a positive rate lowers a positive weight, and the test against the removal floor
\* decides as on the exact product
decayAmount(weight, rate) ==
    MulDiv(rate, weight, RScale)
        + (IF ((rate % RScale) * (weight % RScale)) % RScale = 0 THEN 0 ELSE 1)

\* the subtraction without the floor at 0
decayedWeightUnclamped(weight, rate) == weight - decayAmount(weight, rate)

\* atom.senseWeight = Math.max(atom.senseWeight - decayAmount, 0)
decayedWeight(weight, rate) == Max(weight - decayAmount(weight, rate), 0)

\* DecayScheduler.processAtomDecay: the atom after the call and the DecayResult
processAtomDecay(atom, t) ==
    LET \* the DecayResult, decided on the atom as the decay left it
        result(after, rate) ==
            [ atom              |-> after,
              decayApplied      |-> rate,
              shouldRemove      |-> /\ after.senseWeight < MIN_SENSE_WEIGHT
                                    /\ ~isProtectedFromRemoval(after, t),
              shouldConsolidate |-> /\ shouldConsolidate(after)
                                    /\ after.senseWeight >= CONSOLIDATION_THRESHOLD ]
        decay(rate) ==
            result([atom EXCEPT !.senseWeight = decayedWeight(atom.senseWeight, rate)], rate)
    IN decay(effectiveDecayRate(atom, t))

\* consolidateAtom that halves the base rate in place of the atom's own coefficient
consolidateAtomFromBase(atom, t) ==
    [atom EXCEPT !.consolidationTime = t,
                 !.decayRate = FracMul(BASE_DECAY_RATE, 1, 2),
                 !.baseSenseWeight = atom.senseWeight]

\* DecayScheduler.consolidateAtom
consolidateAtom(atom, t) ==
    [atom EXCEPT !.consolidationTime = t,
                 !.decayRate = FracMul(@, 1, 2),
                 !.baseSenseWeight = atom.senseWeight]

RECURSIVE SumDecayApplied(_, _)
SumDecayApplied(results, ids) ==
    IF ids = <<>> THEN 0
    ELSE results[Head(ids)].decayApplied + SumDecayApplied(results, Tail(ids))

\* DecayScheduler.applyDecay: the graph it leaves, the statistics it records and the
\* two work lists of the pass
DecayPass(g, t) ==
    LET \* the statistics, and the optimize that follows a pass that removed atoms
        finish(results, toRemove, consolidated, g3) ==
            [ graph        |-> IF Len(toRemove) > 0 THEN optimize(g3, t) ELSE g3,
              removed      |-> Range(toRemove),
              consolidated |-> consolidated,
              statistics   |->
                [ totalProcessed     |-> size(g),
                  atomsDecayed       |-> Cardinality({x \in DOMAIN g.atoms :
                                                        results[x].decayApplied > 0}),
                  atomsRemoved       |-> Len(toRemove),
                  atomsConsolidated  |-> Cardinality(consolidated),
                  averageDecayRate   |-> IF size(g) > 0
                                         THEN SumDecayApplied(results, g.order) \div size(g)
                                         ELSE 0,
                  lastDecayRun       |-> t,
                  memoryOptimization |-> IF size(g) > 0
                                         THEN (Len(toRemove) * 100) \div size(g)
                                         ELSE 0 ] ]
        \* atomsToConsolidate.forEach: consolidateAtom on those still in the graph
        consolidate(results, toRemove, consolidated, g2) ==
            finish(results, toRemove, consolidated,
                   [g2 EXCEPT !.atoms = [x \in DOMAIN g2.atoms |->
                                            IF x \in consolidated
                                            THEN consolidateAtom(g2.atoms[x], t)
                                            ELSE g2.atoms[x]]])
        \* atomsToRemove.forEach: removeAtom
        remove(results, toRemove, toConsolidate, g2) ==
            consolidate(results, toRemove, {x \in Range(toConsolidate) : hasAtom(g2, x)}, g2)
        marked(results, toRemove) ==
            remove(results, toRemove,
                   FilterSeq(g.order, {x \in DOMAIN g.atoms :
                                ~results[x].shouldRemove /\ results[x].shouldConsolidate}),
                   removeAll([g EXCEPT !.atoms = [x \in DOMAIN g.atoms |-> results[x].atom]],
                             toRemove, t))
        \* getAllAtoms().forEach: processAtomDecay and the two work lists
        sweep(results) ==
            marked(results, FilterSeq(g.order, {x \in DOMAIN g.atoms : results[x].shouldRemove}))
    IN sweep([x \in DOMAIN g.atoms |-> processAtomDecay(g.atoms[x], t)])

applyDecay(g, t) == DecayPass(g, t).graph

----------------------------------------------------------------------------
(* excitationEngine: query matching *)

(* A query is a sequence of characters.  A letter outside ASCII is written as
   its base letter followed by a mark ("l/" is l with stroke, "s'" is s with
   acute, "e," is e with ogonek, "z." is z with dot above, ...): one sequence
   element per character of the string. *)

\* String.prototype.toLowerCase, one character
LowerChar(c) ==
    CASE c = "A" -> "a"
      [] c = "B" -> "b"
      [] c = "C" -> "c"
      [] c = "D" -> "d"
      [] c = "E" -> "e"
      [] c = "F" -> "f"
      [] c = "G" -> "g"
      [] c = "H" -> "h"
      [] c = "I" -> "i"
      [] c = "J" -> "j"
      [] c = "K" -> "k"
      [] c = "L" -> "l"
      [] c = "M" -> "m"
      [] c = "N" -> "n"
      [] c = "O" -> "o"
      [] c = "P" -> "p"
      [] c = "Q" -> "q"
      [] c = "R" -> "r"
      [] c = "S" -> "s"
      [] c = "T" -> "t"
      [] c = "U" -> "u"
      [] c = "V" -> "v"
      [] c = "W" -> "w"
      [] c = "X" -> "x"
      [] c = "Y" -> "y"
      [] c = "Z" -> "z"
      [] c = "L/" -> "l/"
      [] c = "S'" -> "s'"
      [] c = "C'" -> "c'"
      [] c = "E," -> "e,"
      [] c = "Z." -> "z."
      [] c = "O'" -> "o'"
      [] c = "A," -> "a,"
      [] c = "N'" -> "n'"
      [] c = "Z'" -> "z'"
      [] OTHER -> c

toLowerCase(s) == [i \in DOMAIN s |-> LowerChar(s[i])]

\* String.prototype.includes
includes(s, k) ==
    \E i \in 0..(Len(s) - Len(k)) : \A j \in 1..Len(k) : s[i + j] = k[j]

\* detectPierwiastkiInQuery: keywordMap, in its insertion order
keywordMap == <<
    [ pierwiastek |-> "ALGORYTM_ZAKOCHANIA",
      keywords |-> << <<"m", "i", "l/", "o", "s'", "c'">>,
                      <<"z", "a", "k", "o", "c", "h", "a", "n", "i", "e">>,
                      <<"u", "c", "z", "u", "c", "i", "e">>,
                      <<"r", "o", "m", "a", "n", "s">> >> ],
    [ pierwiastek |-> "NADZIEJA_WYTRWALOSCI",
      keywords |-> << <<"n", "a", "d", "z", "i", "e", "j", "a">>,
                      <<"w", "y", "t", "r", "w", "a", "l/", "o", "s'", "c'">>,
                      <<"d", "e", "t", "e", "r", "m", "i", "n", "a", "c", "j", "a">>,
                      <<"c", "e", "l">> >> ],
    [ pierwiastek |-> "SZCZYPTA_INTELIGENCJI",
      keywords |-> << <<"i", "n", "t", "e", "l", "i", "g", "e", "n", "c", "j", "a">>,
                      <<"m", "a,", "d", "r", "o", "s'", "c'">>,
                      <<"a", "n", "a", "l", "i", "z", "a">>,
                      <<"l", "o", "g", "i", "k", "a">> >> ],
    [ pierwiastek |-> "POSWIECENIE",
      keywords |-> << <<"p", "o", "s'", "w", "i", "e,", "c", "e", "n", "i", "e">>,
                      <<"a", "l", "t", "r", "u", "i", "z", "m">>,
                      <<"d", "l", "a", " ", "i", "n", "n", "y", "c", "h">>,
                      <<"o", "f", "i", "a", "r", "a">> >> ],
    [ pierwiastek |-> "ZROZUMIENIE",
      keywords |-> << <<"r", "o", "z", "u", "m", "i", "e", "m">>,
                      <<"z", "r", "o", "z", "u", "m", "i", "e", "n", "i", "e">>,
                      <<"p", "o", "j", "m", "u", "j", "e,">>,
                      <<"j", "a", "s", "n", "e">> >> ],
    [ pierwiastek |-> "POMYSL",
      keywords |-> << <<"p", "o", "m", "y", "s", "l/">>,
                      <<"i", "d", "e", "a">>,
                      <<"k", "o", "n", "c", "e", "p", "c", "j", "a">>,
                      <<"r", "o", "z", "w", "i", "a,", "z", "a", "n", "i", "e">> >> ],
    [ pierwiastek |-> "BRAK_WIARY_I_NADZIEI",
      keywords |-> << <<"b", "e", "z", "n", "a", "d", "z", "i", "e", "j", "a">>,
                      <<"r", "o", "z", "p", "a", "c", "z">>,
                      <<"n", "i", "e", " ", "w", "i", "e", "r", "z", "e,">>,
                      <<"b", "r", "a", "k", " ", "w", "i", "a", "r", "y">> >> ],
    [ pierwiastek |-> "ISKRA_ZYCIA",
      keywords |-> << <<"z.", "y", "c", "i", "e">>,
                      <<"e", "n", "e", "r", "g", "i", "a">>,
                      <<"s", "i", "l/", "a">>,
                      <<"i", "s", "k", "r", "a">> >> ],
    [ pierwiastek |-> "SEKUNDNIK",
      keywords |-> << <<"c", "z", "a", "s">>,
                      <<"r", "y", "t", "m">>,
                      <<"c", "y", "k", "l">>,
                      <<"t", "a", "k", "t">> >> ] >>

RECURSIVE detectFrom(_, _)
detectFrom(entries, queryLower) ==
    IF entries = <<>> THEN <<>>
    ELSE LET e == Head(entries)
             hit == \E i \in DOMAIN e.keywords : includes(queryLower, e.keywords[i])
         IN (IF hit THEN <<e.pierwiastek>> ELSE <<>>) \o detectFrom(Tail(entries), queryLower)

\* detectPierwiastkiInQuery
detectPierwiastkiInQuery(query) == detectFrom(keywordMap, toLowerCase(query))

----------------------------------------------------------------------------
(* emotionalBoost *)

RECURSIVE KnownOnly(_)
KnownOnly(pierwiastki) ==
    IF pierwiastki = <<>> THEN <<>>
    ELSE (IF KnownTag(Head(pierwiastki)) THEN <<Head(pierwiastki)>> ELSE <<>>)
         \o KnownOnly(Tail(pierwiastki))

RECURSIVE SumTableWeight(_)
SumTableWeight(elements) ==
    IF elements = <<>> THEN 0
    ELSE NS_WEIGHTS[Head(elements)].weight + SumTableWeight(Tail(elements))

RECURSIVE MaxTableWeight(_)
MaxTableWeight(elements) ==
    IF elements = <<>> THEN 0
    ELSE Max(NS_WEIGHTS[Head(elements)].weight, MaxTableWeight(Tail(elements)))

\* the table's tags whose name includes MILOSCI, ZAKOCHANIA, POZADANIE, ISKRA_ZYCIA
\* or POSWIECENIE (NAMIENTNOSC_POZADANIA and MILOSC_BEZWARUNKOWA include none of them)
highEmotionalTags ==
    { "PIERWIASTEK_MILOSCI", "ALGORYTM_MILOSCI", "ALGORYTM_ZAKOCHANIA",
      "POZADANIE_SZCZYPTA", "ISKRA_ZYCIA", "POSWIECENIE" }

MScale == 10 ^ 4        \* weight multipliers are in units of 1/MScale
\* a cap of x4
MaxBoostOfFour == 4 * MScale
MaxBoost == 3 * MScale  \* Math.min(weightMultiplier, 3.0)

\* calculateEmotionalBoost
calculateEmotionalBoost(pierwiastki) ==
    LET processedElements == KnownOnly(pierwiastki)
        n         == Len(processedElements)
        maxWeight == MaxTableWeight(processedElements)
        \* avgWeight in units of 1/MScale
        avgWeight == IF n > 0 THEN (SumTableWeight(processedElements) * 100) \div n ELSE 0
        level     == IF maxWeight >= 90 THEN "EXTREME"
                     ELSE IF maxWeight >= 80 THEN "HIGH"
                     ELSE IF maxWeight >= 60 THEN "MEDIUM"
                     ELSE IF maxWeight >= 40 THEN "LOW"
                     ELSE "MINIMAL"
        factor    == CASE level = "EXTREME" -> 15
                       [] level = "HIGH"    -> 12
                       [] level = "MEDIUM"  -> 8
                       [] level = "LOW"     -> 5
                       [] OTHER             -> 2
        nHigh     == Cardinality({i \in DOMAIN processedElements :
                                    processedElements[i] \in highEmotionalTags})
        multiplier == MScale + (avgWeight * factor) \div 10 + nHigh * (MScale \div 10)
    IN [ weightMultiplier  |-> Min(multiplier, MaxBoost),
         finalDecayRate    |-> FracMax(Frac(MinDecayModifier(pierwiastki, 100), 100),
                                       Frac(1, 1000)),      \* MIN_SENSE_WEIGHT / 10
         activationLevel   |-> level,
         processedElements |-> processedElements ]

\* applyEmotionalBoost
applyEmotionalBoost(senseAtom, detectedPierwiastki, t) ==
    IF Len(detectedPierwiastki) = 0 THEN senseAtom
    ELSE LET boostResult == calculateEmotionalBoost(detectedPierwiastki)
         IN [senseAtom EXCEPT
                !.senseWeight = MulDiv(boostResult.weightMultiplier, @, MScale),
                !.decayRate = FracMin(@, boostResult.finalDecayRate),
                !.emotionalProcessingTime = t,
                !.emotionalBoostApplied = TRUE,
                !.amygdalaActivationLevel = boostResult.activationLevel]

\* a stress factor that is never below 1
stressFactorAtLeastOne(totalActivatedAtoms) ==
    Max(MScale, Min(MulDiv(MScale, totalActivatedAtoms, MAX_ACTIVE_ATOMS), 2 * MScale))

\* applyOxidativeStress: Math.min(totalActivatedAtoms / MAX_ACTIVE_ATOMS, 2.0), in 1/MScale
stressFactor(totalActivatedAtoms) ==
    Min(MulDiv(MScale, totalActivatedAtoms, MAX_ACTIVE_ATOMS), 2 * MScale)

\* applyOxidativeStress
applyOxidativeStress(senseAtom, totalActivatedAtoms) ==
    IF 10 * totalActivatedAtoms > 8 * MAX_ACTIVE_ATOMS
    THEN [senseAtom EXCEPT
            !.senseWeight = MulDiv(@, MScale, stressFactor(totalActivatedAtoms)),
            !.oxidativeStress = stressFactor(totalActivatedAtoms)]
    ELSE senseAtom

----------------------------------------------------------------------------
(* excitationEngine: the phases of a cycle *)

NoQuery == <<>>     \* currentQuery null (or the empty string): !query holds

\* the module-level nsfState (performance.avgCycleTime, a measured duration, is left out)
NewNSFState ==
    [ isActive           |-> FALSE,
      cycleCount         |-> 0,
      currentQuery       |-> NoQuery,
      lastProcessingTime |-> 0,
      activeAtoms        |-> {},
      performance        |-> [totalAtoms |-> 0, consolidatedAtoms |-> 0] ]

\* Array.prototype.sort((a, b) => b.senseWeight - a.senseWeight): stable, descending
RECURSIVE InsertByWeight(_, _, _)
InsertByWeight(sorted, id, atoms) ==
    IF sorted = <<>> THEN <<id>>
    ELSE IF atoms[Head(sorted)].senseWeight >= atoms[id].senseWeight
         THEN <<Head(sorted)>> \o InsertByWeight(Tail(sorted), id, atoms)
         ELSE <<id>> \o sorted

RECURSIVE SortFrom(_, _, _)
SortFrom(sorted, ids, atoms) ==
    IF ids = <<>> THEN sorted
    ELSE SortFrom(InsertByWeight(sorted, Head(ids), atoms), Tail(ids), atoms)

sortByWeightDesc(ids, atoms) == SortFrom(<<>>, ids, atoms)

\* a spontaneous excitation that does not cut the sorted list to its first count atoms
activateAllAtoms(g, count, t) ==
    [ graph     |-> [g EXCEPT !.atoms = [x \in DOMAIN g.atoms |->
                                            [g.atoms[x] EXCEPT !.lastAccessTime = t]]],
      activated |-> sortByWeightDesc(g.order, g.atoms) ]

\* a spontaneous excitation that calls activate() on the atoms it takes
activateTopWeightAtomsCounting(g, count, t) ==
    LET sorted == sortByWeightDesc(g.order, g.atoms)
        top    == SubSeq(sorted, 1, Min(count, Len(sorted)))
    IN [ graph     |-> [g EXCEPT !.atoms = [x \in DOMAIN g.atoms |->
                                               IF x \in Range(top)
                                               THEN activate(g.atoms[x], t)
                                               ELSE g.atoms[x]]],
         activated |-> top ]

\* activateTopWeightAtoms: the graph it leaves and the atoms it returns
TopCount == 3
activateTopWeightAtoms(g, count, t) ==
    LET sorted == sortByWeightDesc(g.order, g.atoms)
        top    == SubSeq(sorted, 1, Min(count, Len(sorted)))
    IN [ graph     |-> [g EXCEPT !.atoms = [x \in DOMAIN g.atoms |->
                                               IF x \in Range(top)
                                               THEN [g.atoms[x] EXCEPT !.lastAccessTime = t]
                                               ELSE g.atoms[x]]],
         activated |-> top ]

\* an overlap that counts every pierwiastek of the atom
overlapLengthOfAll(atom, detectedElements) == Len(atom.detectedPierwiastki)

\* the number of an atom's pierwiastki that the query detected (overlap.length)
overlapLength(atom, detectedElements) ==
    Cardinality({i \in DOMAIN atom.detectedPierwiastki :
                    Contains(detectedElements, atom.detectedPierwiastki[i])})

\* processContextExcitation: the graph it leaves and the atoms it returns
processContextExcitation(g, query, t) ==
    LET sorted(hit, atoms1) ==
            [ graph     |-> [g EXCEPT !.atoms = atoms1],
              activated |-> sortByWeightDesc(FilterSeq(g.order, hit), atoms1) ]
        excite(detectedElements, hit) ==
            sorted(hit,
                   [x \in DOMAIN g.atoms |->
                        IF x \in hit
                        THEN [g.atoms[x] EXCEPT
                                !.senseWeight =
                                    MulDiv(@, Len(detectedElements)
                                                + overlapLength(g.atoms[x], detectedElements),
                                           Len(detectedElements)),
                                !.lastAccessTime = t]
                        ELSE g.atoms[x]])
        match(detectedElements) ==
            excite(detectedElements,
                   {x \in DOMAIN g.atoms : overlapLength(g.atoms[x], detectedElements) > 0})
    IN IF query = NoQuery THEN activateTopWeightAtoms(g, TopCount, t)
       ELSE match(detectPierwiastkiInQuery(query))

altruisticTags == {"POSWIECENIE", "MILOSC_BEZWARUNKOWA", "ALGORYTM_MILOSCI"}
negativeTags == {"BRAK_WIARY_I_NADZIEI", "NIEUGIETA_BEZSILNOSC"}
hasTagIn(atom, tags) == \E i \in DOMAIN atom.detectedPierwiastki : atom.detectedPierwiastki[i] \in tags

\* boostAltruisticConnections, one atom
boostAltruistic(atom) ==
    [atom EXCEPT !.senseWeight = MulDiv(@, 12, 10), !.decayRate = FracMul(@, 8, 10)]

\* isolateNegativeStates, one atom
isolateNegative(atom) == [atom EXCEPT !.decayRate = FracMul(@, 15, 10)]

\* the rules applied to every atom of the graph, activated or not
applyPFC_LogicToGraph(activatedAtoms, g) ==
    LET pfc(atom) ==
            LET a1 == IF hasTagIn(atom, altruisticTags) THEN boostAltruistic(atom) ELSE atom
            IN IF hasTagIn(a1, negativeTags) THEN isolateNegative(a1) ELSE a1
    IN [g EXCEPT !.atoms = [x \in DOMAIN g.atoms |-> pfc(g.atoms[x])]]

\* applyPFC_Logic (checkLogicCoherence and generateInsights only log)
applyPFC_Logic(activatedAtoms, g) ==
    LET act  == Range(activatedAtoms)
        pfc(atom) ==
            LET a1 == IF hasTagIn(atom, altruisticTags) THEN boostAltruistic(atom) ELSE atom
            IN IF hasTagIn(a1, negativeTags) THEN isolateNegative(a1) ELSE a1
    IN [g EXCEPT !.atoms = [x \in DOMAIN g.atoms |->
                               IF x \in act THEN pfc(g.atoms[x]) ELSE g.atoms[x]]]

\* the cycle's phase 3: applyEmotionalBoost on every activated atom that has pierwiastki
boostActivated(activatedAtoms, g, t) ==
    [g EXCEPT !.atoms = [x \in DOMAIN g.atoms |->
                            IF x \in Range(activatedAtoms)
                            THEN applyEmotionalBoost(g.atoms[x], g.atoms[x].detectedPierwiastki, t)
                            ELSE g.atoms[x]]]

ClearEvery == 10
\* updateNSFState
updateNSFState(nsf, g, activatedAtoms, t) ==
    [nsf EXCEPT
        !.performance = [ totalAtoms        |-> size(g),
                          consolidatedAtoms |-> Cardinality({x \in DOMAIN g.atoms :
                                g.atoms[x].senseWeight > CONSOLIDATION_THRESHOLD}) ],
        !.lastProcessingTime = t,
        !.activeAtoms = IF nsf.cycleCount % ClearEvery = 0 THEN {} ELSE @]

\* the setInterval callback of startNSF_Flowmeter: one cycle of the Sekundnik
cycle(g, nsf, t) ==
    LET \* phase 5: updateNSFState
        phase5(pass, exc, g4) ==
            [ graph      |-> g4,
              nsfState   |-> updateNSFState(
                                [nsf EXCEPT !.cycleCount = @ + 1,
                                            !.activeAtoms = @ \cup Range(exc.activated)],
                                g4, exc.activated, t),
              decayStats |-> pass.statistics,
              pass       |-> pass,
              activated  |-> exc.activated ]
        \* phases 3 and 4: applyEmotionalBoost, applyPFC_Logic
        phase3(pass, exc) ==
            phase5(pass, exc,
                   applyPFC_Logic(exc.activated, boostActivated(exc.activated, exc.graph, t)))
        \* phase 2: processContextExcitation
        phase2(pass) == phase3(pass, processContextExcitation(pass.graph, nsf.currentQuery, t))
    \* phase 1: decayScheduler.applyDecay
    IN phase2(DecayPass(g, t))

----------------------------------------------------------------------------
(* The JavaScript runtime: interval timers and the one callback on the stack *)

\* no timer has been created
NoTimers == <<>>

\* setInterval: the timers with one more handle, live
setInterval(ts, kind) == Append(ts, [kind |-> kind, live |-> TRUE])

\* the handle that the setInterval above returned
lastHandle(ts) == Len(ts)

\* clearInterval(handle); 0 stands for null, and clearing it does nothing
clearInterval(ts, h) ==
    IF h \in DOMAIN ts THEN [ts EXCEPT ![h].live = FALSE] ELSE ts

\* an event loop that goes on firing a timer after clearInterval
scheduledTimers(ts, kind) == {h \in DOMAIN ts : ts[h].kind = kind}

liveTimers(ts, kind) == {h \in DOMAIN ts : ts[h].kind = kind /\ ts[h].live}

\* the stack is empty: the event loop may run the next callback or caller
Idle == [callback |-> "none"]

\* an event loop that dispatches while a callback is still on the stack
dispatchAnytime(run) == TRUE

\* the event loop runs a callback or a caller's turn to completion: the next
\* one is dispatched only when nothing is running
dispatch(run) == run = Idle

\* MetaCognitiveNSFEngine.constructor (of metaState, the length of
\* performanceHistory is kept)
NewMetaCognitiveNSFEngine ==
    [ isActive           |-> FALSE,
      nsfTimer           |-> 0,
      introspectionTimer |-> 0,
      performanceHistory |-> 0,
      emotionalStability |-> 70,       \* metaState.performanceMetrics, in hundredths
      currentGoals       |-> <<"optimize_memory", "maintain_coherence", "learn_patterns">> ]

\* analyzeEmotionalState: the stability the introspection records
analyzeEmotionalState(g, stability) ==
    LET emotionalAtoms == {x \in DOMAIN g.atoms : g.atoms[x].amygdalaActivationLevel # NoLevel}
        extremeCount   == Cardinality({x \in emotionalAtoms :
                                        g.atoms[x].amygdalaActivationLevel = "EXTREME"})
    IN IF emotionalAtoms # {} THEN Max(10, 100 - 20 * extremeCount) ELSE stability

\* updateGoalsBasedOnPerformance: the goal added when emotional stability is low
\* (optimize_memory is always among the goals; creativityIndex stays at 0.6)
updateGoalsBasedOnPerformance(goals, stability) ==
    LET added == IF stability < 50 /\ ~Contains(goals, "stabilize_emotions")
                 THEN <<"stabilize_emotions">> \o goals
                 ELSE goals
    IN SubSeq(added, 1, Min(5, Len(added)))

\* clearInterval(handle) guarded by if (handle): 0 is null
clearIfSet(ts, h) == IF h # 0 THEN clearInterval(ts, h) ELSE ts

----------------------------------------------------------------------------
(* The operations, as actions *)

NumIds == 2
MaxOps == 4
StartTime == 1

Ids == 1..NumIds
Weights == {WScale \div 200, WScale}                         \* 0.005, 1.0
TagLists == {<<>>, <<"ISKRA_ZYCIA">>}
Links == {<<SScale \div 20, "SEMANTIC">>, <<SScale \div 2, "EMOTIONAL">>}   \* 0.05, 0.5
Delays == {40 * TicksPerDay}

Called == steps < MaxOps /\ steps' = steps + 1

\* graph.addAtom(new SenseAtom(id, label, weight, pierwiastki))
AddAtom(id, weight, pierwiastki) ==
    /\ Called
    /\ graph' = addAtom(graph, NewSenseAtom(id, weight, pierwiastki, now), now)
    /\ last' = [op |-> "addAtom", id |-> id, present |-> hasAtom(graph, id)]
    /\ UNCHANGED <<now, decayStats, nsfState, timers, engine, running>>

\* graph.createConnection(sourceId, targetId, strength, type)
CreateConnection(sourceId, targetId, strength, type) ==
    /\ Called
    /\ graph' = createConnection(graph, sourceId, targetId, strength, type, now)
    /\ last' = [op |-> "createConnection", sourceId |-> sourceId, targetId |-> targetId,
                strength |-> strength, type |-> type,
                ret |-> createConnectionRet(graph, sourceId, targetId),
                \* the strength of the entry the call replaces (0: there was none)
                previous |-> IF hasAtom(graph, sourceId)
                                /\ targetId \in DOMAIN graph.atoms[sourceId].connections
                             THEN graph.atoms[sourceId].connections[targetId].strength
                             ELSE 0]
    /\ UNCHANGED <<now, decayStats, nsfState, timers, engine, running>>

\* graph.removeAtom(id)
RemoveAtom(id) ==
    /\ Called
    /\ graph' = removeAtom(graph, id, now)
    /\ last' = [op |-> "removeAtom", id |-> id, ret |-> removeAtomRet(graph, id),
                \* the atoms that held an entry for id when the call was made
                referencedBy |-> {x \in DOMAIN graph.atoms \ {id} :
                                    id \in DOMAIN graph.atoms[x].connections}]
    /\ UNCHANGED <<now, decayStats, nsfState, timers, engine, running>>

\* graph.optimize()
Optimize ==
    /\ Called
    /\ graph' = optimize(graph, now)
    /\ last' = [op |-> "optimize"]
    /\ UNCHANGED <<now, decayStats, nsfState, timers, engine, running>>

\* decayScheduler.applyDecay(graph)
ApplyDecay ==
    /\ Called
    /\ LET returns(pass) ==
                /\ graph' = pass.graph
                /\ decayStats' = pass.statistics
                /\ last' = [op |-> "applyDecay", before |-> graph, removed |-> pass.removed,
                            consolidated |-> pass.consolidated]
       IN returns(DecayPass(graph, now))
    /\ UNCHANGED <<now, nsfState, timers, engine, running>>

\* the clock moves on between two calls
AdvanceTime(d) ==
    /\ Called
    /\ now' = now + d
    /\ last' = [op |-> "advanceTime"]
    /\ UNCHANGED <<graph, decayStats, nsfState, timers, engine, running>>

Init ==
    /\ now = StartTime
    /\ graph = NewRelationalGraph(StartTime)
    /\ decayStats = NewDecayStatistics
    /\ nsfState = NewNSFState
    /\ timers = NoTimers
    /\ engine = NewMetaCognitiveNSFEngine
    /\ running = Idle
    /\ last = [op |-> "new"]
    /\ steps = 0

Next ==
    \/ \E id \in Ids, w \in Weights, p \in TagLists : AddAtom(id, w, p)
    \/ \E a \in Ids, b \in Ids, l \in Links : CreateConnection(a, b, l[1], l[2])
    \/ \E id \in Ids : RemoveAtom(id)
    \/ Optimize
    \/ ApplyDecay
    \/ \E d \in Delays : AdvanceTime(d)

Spec == Init /\ [][Next]_vars

----------------------------------------------------------------------------
(* The decay pass and the Sekundnik over a populated store.  The store is a star
   that addAtom and createConnection have built: atom 1 and its neighbours. *)

MaxNeighbours == 5

\* the hub: its weight, its pierwiastki, and the coefficient on its public
\* decayRate field (the constructor's 0.05, or 0.9 set by the caller)
HubKinds ==
    { [weight |-> WScale \div 200, pierwiastki |-> <<>>,              decayRate |-> BASE_DECAY_RATE],
      [weight |-> WScale,          pierwiastki |-> <<>>,              decayRate |-> BASE_DECAY_RATE],
      [weight |-> WScale,          pierwiastki |-> <<>>,              decayRate |-> Frac(9, 10)],
      [weight |-> WScale,          pierwiastki |-> <<"POSWIECENIE">>, decayRate |-> BASE_DECAY_RATE] }

\* a neighbour: its weight and the strength of its link to the hub
NeighbourKinds ==
    << [weight |-> WScale \div 200, strength |-> SScale \div 2],
       [weight |-> WScale,          strength |-> SScale \div 20] >>

\* the neighbours, listed by kind in non-decreasing order
NeighbourLists ==
    UNION { { ks \in [1..n -> DOMAIN NeighbourKinds] :
                \A i \in 1..(n - 1) : ks[i] <= ks[i + 1] } : n \in 0..MaxNeighbours }

\* graph.addAtom(neighbour); graph.createConnection(hub, neighbour, strength)
RECURSIVE attach(_, _, _, _, _)
attach(g, hubId, ks, i, t) ==
    IF i > Len(ks) THEN g
    ELSE LET k  == NeighbourKinds[ks[i]]
             id == hubId + i
             g1 == addAtom(g, NewSenseAtom(id, k.weight, <<>>, t), t)
         IN attach(createConnection(g1, hubId, id, k.strength, "SEMANTIC", t),
                   hubId, ks, i + 1, t)

star(hubId, h, ks, t) ==
    LET hub == [NewSenseAtom(hubId, h.weight, h.pierwiastki, t) EXCEPT !.decayRate = h.decayRate]
    IN attach(addAtom(NewRelationalGraph(t), hub, t), hubId, ks, 1, t)

\* startNSF_Flowmeter: the state it leaves (the timer it returns is in timers)
startNSF_Flowmeter(nsf) == [nsf EXCEPT !.isActive = TRUE]

Queries == { <<"p", "o", "s'", "w", "i", "e,", "c", "e", "n", "i", "e">> }

\* the interval callback of a live timer runs one cycle
Cycle ==
    /\ Called
    /\ dispatch(running)
    /\ liveTimers(timers, "sekundnik") # {}
    /\ LET returns(c) ==
                /\ graph' = c.graph
                /\ nsfState' = c.nsfState
                /\ decayStats' = c.decayStats
                /\ last' = [op |-> "cycle", before |-> graph, removed |-> c.pass.removed,
                            consolidated |-> c.pass.consolidated]
       IN returns(cycle(graph, nsfState, now))
    /\ UNCHANGED <<now, timers, engine, running>>

\* setCurrentQuery(query)
setCurrentQuery(nsf, query) == [nsf EXCEPT !.currentQuery = query]

SetCurrentQuery(query) ==
    /\ Called
    /\ dispatch(running)
    /\ nsfState' = setCurrentQuery(nsfState, query)
    /\ last' = [op |-> "setCurrentQuery"]
    /\ UNCHANGED <<graph, now, decayStats, timers, engine, running>>

InitDecay ==
    /\ now = StartTime
    /\ \E h \in HubKinds, ks \in NeighbourLists : graph = star(1, h, ks, StartTime)
    /\ decayStats = NewDecayStatistics
    /\ nsfState = startNSF_Flowmeter(NewNSFState)
    /\ timers = setInterval(NoTimers, "sekundnik")
    /\ engine = NewMetaCognitiveNSFEngine
    /\ running = Idle
    /\ last = [op |-> "new"]
    /\ steps = 0

NextDecay ==
    \/ ApplyDecay
    \/ Cycle
    \/ \E q \in Queries : SetCurrentQuery(q)
    \/ Optimize
    \/ \E d \in Delays : AdvanceTime(d)

SpecDecay == InitDecay /\ [][NextDecay]_vars

----------------------------------------------------------------------------
(* The Sekundnik on the event loop.  A tick is the setInterval callback of
   startNSF_Flowmeter; its five phases are taken one step at a time, and a phase
   may throw.  The graph is what addAtom built from a roster of atoms an hour
   before the driver is first started. *)

MaxAtoms == 5
MaxTimers == 4
HistoryLimit == 50

\* the atoms a caller may have added, by identity
Roster ==
    << [weight |-> WScale,        pierwiastki |-> <<"ALGORYTM_ZAKOCHANIA">>],
       [weight |-> WScale,        pierwiastki |-> <<>>],
       [weight |-> WScale,        pierwiastki |-> <<"POSWIECENIE">>],
       [weight |-> WScale,        pierwiastki |-> <<"BRAK_WIARY_I_NADZIEI">>],
       [weight |-> WScale \div 2, pierwiastki |-> <<"MILOSC_BEZWARUNKOWA">>] >>

rosterAtom(id, t) ==
    NewSenseAtom(id, Roster[((id - 1) % Len(Roster)) + 1].weight,
                     Roster[((id - 1) % Len(Roster)) + 1].pierwiastki, t)

\* graph.addAtom for every identity of ids, in ascending order
RECURSIVE populate(_, _, _, _)
populate(g, ids, id, t) ==
    IF id > MaxAtoms THEN g
    ELSE populate(IF id \in ids THEN addAtom(g, rosterAtom(id, t), t) ELSE g, ids, id + 1, t)

\* "miłość" and "Wielka miłość, jeden cel"
DriverQueries ==
    { <<"m", "i", "l/", "o", "s'", "c'">>,
      <<"W", "i", "e", "l", "k", "a", " ", "m", "i", "l/", "o", "s'", "c'", ",", " ",
        "j", "e", "d", "e", "n", " ", "c", "e", "l">> }

\* startNSF_Flowmeter(graph)
StartNSF_Flowmeter ==
    /\ Called
    /\ dispatch(running)
    /\ Len(timers) < MaxTimers
    /\ nsfState' = startNSF_Flowmeter(nsfState)
    /\ timers' = setInterval(timers, "sekundnik")
    /\ last' = [op |-> "startNSF_Flowmeter", timer |-> lastHandle(timers')]
    /\ UNCHANGED <<graph, now, decayStats, engine, running>>

\* stopNSF_Flowmeter(timer), with a timer that startNSF_Flowmeter returned
StopNSF_Flowmeter(timer) ==
    /\ Called
    /\ dispatch(running)
    /\ timer \in DOMAIN timers /\ timers[timer].kind = "sekundnik"
    /\ timers' = clearInterval(timers, timer)
    /\ nsfState' = [nsfState EXCEPT !.isActive = FALSE]
    /\ last' = [op |-> "stopNSF_Flowmeter", timer |-> timer]
    /\ UNCHANGED <<graph, now, decayStats, engine, running>>

\* resetNSF(): nsfState is replaced by a fresh one; no timer is touched
resetNSF(nsf) == NewNSFState

ResetNSF ==
    /\ Called
    /\ dispatch(running)
    /\ nsfState' = resetNSF(nsfState)
    /\ last' = [op |-> "resetNSF"]
    /\ UNCHANGED <<graph, now, decayStats, timers, engine, running>>

\* MetaCognitiveNSFEngine.startIntegratedSystem: the Sekundnik, the introspection
\* loop and the auto-optimization loop
StartIntegratedSystem ==
    /\ Called
    /\ dispatch(running)
    /\ Len(timers) + 3 <= MaxTimers
    /\ nsfState' = startNSF_Flowmeter(nsfState)
    /\ timers' = setInterval(setInterval(setInterval(timers, "sekundnik"),
                                         "introspection"), "autoOptimization")
    /\ engine' = [engine EXCEPT !.isActive = TRUE,
                                !.nsfTimer = Len(timers) + 1,
                                !.introspectionTimer = Len(timers) + 2]
    /\ last' = [op |-> "startIntegratedSystem"]
    /\ UNCHANGED <<graph, now, decayStats, running>>

\* an introspection that tidies the graph it inspects
IntrospectionOptimizing(timer) ==
    /\ Called
    /\ dispatch(running)
    /\ timer \in liveTimers(timers, "introspection")
    /\ graph' = optimize(graph, now)
    /\ engine' = [engine EXCEPT !.performanceHistory = Min(@ + 1, HistoryLimit),
                                !.emotionalStability = analyzeEmotionalState(graph, @)]
    /\ last' = [op |-> "introspection"]
    /\ UNCHANGED <<now, decayStats, nsfState, timers, running>>

\* the introspection callback: performSelfIntrospection reads the graph, nsfState
\* and the decay statistics and records a snapshot
Introspection(timer) ==
    /\ Called
    /\ dispatch(running)
    /\ timer \in liveTimers(timers, "introspection")
    /\ engine' = [engine EXCEPT !.performanceHistory = Min(@ + 1, HistoryLimit),
                                !.emotionalStability = analyzeEmotionalState(graph, @)]
    /\ last' = [op |-> "introspection"]
    /\ UNCHANGED <<graph, now, decayStats, nsfState, timers, running>>

\* the auto-optimization callback: performAutoOptimization updates the goals of
\* metaState (the adaptive parameters follow trends in measured cycle durations,
\* which are left out)
AutoOptimization(timer) ==
    /\ Called
    /\ dispatch(running)
    /\ timer \in liveTimers(timers, "autoOptimization")
    /\ engine' = [engine EXCEPT !.currentGoals =
                        updateGoalsBasedOnPerformance(@, engine.emotionalStability)]
    /\ last' = [op |-> "autoOptimization"]
    /\ UNCHANGED <<graph, now, decayStats, nsfState, timers, running>>

\* MetaCognitiveNSFEngine.stopIntegratedSystem: the Sekundnik and the introspection
\* timer are cleared; the handle of the auto-optimization timer was never kept
StopIntegratedSystem ==
    /\ Called
    /\ dispatch(running)
    /\ timers' = clearIfSet(clearIfSet(timers, engine.nsfTimer), engine.introspectionTimer)
    /\ nsfState' = IF engine.nsfTimer # 0 THEN [nsfState EXCEPT !.isActive = FALSE]
                   ELSE nsfState
    /\ engine' = [engine EXCEPT !.isActive = FALSE, !.nsfTimer = 0, !.introspectionTimer = 0]
    /\ last' = [op |-> "stopIntegratedSystem"]
    /\ UNCHANGED <<graph, now, decayStats, running>>

\* a live Sekundnik timer fires: the callback is entered, nsfState.cycleCount++
TickBegin(timer) ==
    /\ Called
    /\ dispatch(running)
    /\ timer \in liveTimers(timers, "sekundnik")
    /\ nsfState' = [nsfState EXCEPT !.cycleCount = @ + 1]
    /\ running' = [callback |-> "tick", timer |-> timer, phase |-> 1, activatedAtoms |-> <<>>]
    /\ last' = [op |-> "tick", timer |-> timer]
    /\ UNCHANGED <<graph, now, decayStats, timers, engine>>

\* the callback is in phase k of a tick
InPhase(k) == running.callback = "tick" /\ running.phase = k

\* phase 1: decayScheduler.applyDecay(relationalGraph)
Phase1Decay ==
    /\ InPhase(1)
    /\ LET returns(pass) ==
                /\ graph' = pass.graph
                /\ decayStats' = pass.statistics
       IN returns(DecayPass(graph, now))
    /\ running' = [running EXCEPT !.phase = 2]
    /\ last' = [op |-> "phase1", before |-> graph]
    /\ UNCHANGED <<now, nsfState, timers, engine, steps>>

\* phase 2: activatedAtoms = processContextExcitation(relationalGraph, currentQuery)
Phase2Excitation ==
    /\ InPhase(2)
    /\ LET returns(exc) ==
                /\ graph' = exc.graph
                /\ nsfState' = [nsfState EXCEPT !.activeAtoms = @ \cup Range(exc.activated)]
                /\ running' = [running EXCEPT !.phase = 3, !.activatedAtoms = exc.activated]
       IN returns(processContextExcitation(graph, nsfState.currentQuery, now))
    /\ last' = [op |-> "phase2", before |-> graph, query |-> nsfState.currentQuery]
    /\ UNCHANGED <<now, decayStats, timers, engine, steps>>

\* phase 3: applyEmotionalBoost on the activated atoms that have pierwiastki
Phase3EmotionalBoost ==
    /\ InPhase(3)
    /\ graph' = boostActivated(running.activatedAtoms, graph, now)
    /\ running' = [running EXCEPT !.phase = 4]
    /\ last' = [op |-> "phase3", before |-> graph]
    /\ UNCHANGED <<now, decayStats, nsfState, timers, engine, steps>>

\* phase 4: applyPFC_Logic(activatedAtoms, relationalGraph)
Phase4PFC ==
    /\ InPhase(4)
    /\ graph' = applyPFC_Logic(running.activatedAtoms, graph)
    /\ running' = [running EXCEPT !.phase = 5]
    /\ last' = [op |-> "phase4", before |-> graph, activatedAtoms |-> running.activatedAtoms]
    /\ UNCHANGED <<now, decayStats, nsfState, timers, engine, steps>>

\* phase 5: updateNSFState; the callback returns
Phase5UpdateState ==
    /\ InPhase(5)
    /\ nsfState' = updateNSFState(nsfState, graph, running.activatedAtoms, now)
    /\ running' = Idle
    /\ last' = [op |-> "phase5", timer |-> running.timer]
    /\ UNCHANGED <<graph, now, decayStats, timers, engine, steps>>

\* a handler that swallows the error and goes on with the phase after the one
\* that threw
catchErrorAndResume(run) ==
    IF run.phase < 5 THEN [run EXCEPT !.phase = @ + 1] ELSE Idle

\* catch (error) { console.error(...) }: control leaves the try block, the rest
\* of the callback only logs
catchError(run) == Idle

\* the phase the callback is in throws on entry
PhaseThrows ==
    /\ running.callback = "tick"
    /\ running' = catchError(running)
    /\ last' = [op |-> "caught", timer |-> running.timer, phase |-> running.phase]
    /\ UNCHANGED <<graph, now, decayStats, nsfState, timers, engine, steps>>

InitDriver ==
    /\ now = StartTime + TicksPerHour
    /\ \E ids \in SUBSET (1..MaxAtoms) :
            graph = populate(NewRelationalGraph(StartTime), ids, 1, StartTime)
    /\ decayStats = NewDecayStatistics
    /\ nsfState = NewNSFState
    /\ timers = NoTimers
    /\ engine = NewMetaCognitiveNSFEngine
    /\ running = Idle
    /\ last = [op |-> "new"]
    /\ steps = 0

NextDriver ==
    \/ StartNSF_Flowmeter
    \/ \E h \in DOMAIN timers : StopNSF_Flowmeter(h)
    \/ ResetNSF
    \/ StartIntegratedSystem
    \/ StopIntegratedSystem
    \/ \E h \in DOMAIN timers : Introspection(h)
    \/ \E h \in DOMAIN timers : AutoOptimization(h)
    \/ \E q \in DriverQueries : SetCurrentQuery(q)
    \/ \E h \in DOMAIN timers : TickBegin(h)
    \/ Phase1Decay
    \/ Phase2Excitation
    \/ Phase3EmotionalBoost
    \/ Phase4PFC
    \/ Phase5UpdateState
    \/ PhaseThrows

SpecDriver == InitDriver /\ [][NextDriver]_vars

----------------------------------------------------------------------------
(* A run of the Sekundnik: the driver is started on a graph of roster atoms, with
   or without a query, and the timer fires tick after tick, a second apart. *)

MaxTicks == 8

\* the interval callback of the live timer runs one whole cycle
Tick ==
    /\ nsfState.cycleCount < MaxTicks
    /\ dispatch(running)
    /\ liveTimers(timers, "sekundnik") # {}
    /\ LET returns(c) ==
                /\ graph' = c.graph
                /\ nsfState' = c.nsfState
                /\ decayStats' = c.decayStats
                /\ last' = [op |-> "cycle", before |-> graph, removed |-> c.pass.removed,
                            consolidated |-> c.pass.consolidated, activated |-> c.activated]
       IN returns(cycle(graph, nsfState, now))
    /\ UNCHANGED <<now, timers, engine, running, steps>>

\* every atom of the graph has had activate() called k times
RECURSIVE activateEach(_, _, _)
activateEach(g, k, t) ==
    IF k = 0 THEN g
    ELSE activateEach([g EXCEPT !.atoms = [x \in DOMAIN g.atoms |-> activate(g.atoms[x], t)]],
                      k - 1, t)

InitTicks ==
    /\ now = StartTime
    /\ \E ids \in SUBSET (1..MaxAtoms), k \in {0, MinActivations} :
            graph = activateEach(populate(NewRelationalGraph(StartTime), ids, 1, StartTime),
                                 k, StartTime)
    /\ decayStats = NewDecayStatistics
    /\ \E q \in {NoQuery} \cup DriverQueries :
            nsfState = setCurrentQuery(startNSF_Flowmeter(NewNSFState), q)
    /\ timers = setInterval(NoTimers, "sekundnik")
    /\ engine = NewMetaCognitiveNSFEngine
    /\ running = Idle
    /\ last = [op |-> "new"]
    /\ steps = 0

NextTicks == Tick

SpecTicks == InitTicks /\ [][NextTicks]_vars

----------------------------------------------------------------------------
(* The Sekundnik left running with no query: the driver is started on a graph of
   atoms that carry no known pierwiastek, and the timer fires every
   SEKUNDNIK_INTERVAL for as long as it is live. *)

MaxIdleAtoms == 5
MaxIdleTicks == 600
IntervalsPerTick == 360     \* SEKUNDNIK_INTERVAL is 1000 ms, the unit of time 6 minutes

\* four atoms without pierwiastki, of weights 0.1, 1.0, 2.0 and 5.0, and one whose
\* only pierwiastek is not in NS_WEIGHTS
IdleRoster ==
    << [weight |-> WScale \div 10, pierwiastki |-> <<>>],
       [weight |-> WScale,         pierwiastki |-> <<>>],
       [weight |-> 2 * WScale,     pierwiastki |-> <<>>],
       [weight |-> 5 * WScale,     pierwiastki |-> <<>>],
       [weight |-> WScale,         pierwiastki |-> <<"NIEZNANY">>] >>

idleAtom(id, t) ==
    NewSenseAtom(id, IdleRoster[((id - 1) % Len(IdleRoster)) + 1].weight,
                     IdleRoster[((id - 1) % Len(IdleRoster)) + 1].pierwiastki, t)

\* graph.addAtom for every identity of ids, in ascending order
RECURSIVE populateIdle(_, _, _, _)
populateIdle(g, ids, id, t) ==
    IF id > MaxIdleAtoms THEN g
    ELSE populateIdle(IF id \in ids THEN addAtom(g, idleAtom(id, t), t) ELSE g, ids, id + 1, t)

\* the interval callback of the live timer runs one whole cycle, a second after
\* the one before
IdleTickEnabled ==
    /\ nsfState.cycleCount < MaxIdleTicks
    /\ dispatch(running)
    /\ liveTimers(timers, "sekundnik") # {}

IdleTick ==
    /\ IdleTickEnabled
    /\ LET returns(c) ==
                /\ graph' = c.graph
                /\ nsfState' = c.nsfState
                /\ decayStats' = c.decayStats
                /\ last' = [op |-> "cycle", before |-> graph, removed |-> c.pass.removed,
                            consolidated |-> c.pass.consolidated, activated |-> c.activated]
       IN returns(cycle(graph, nsfState, now))
    /\ now' = StartTime + (nsfState.cycleCount + 1) \div IntervalsPerTick
    /\ UNCHANGED <<timers, engine, running, steps>>

InitIdle ==
    /\ now = StartTime
    /\ \E ids \in SUBSET (1..MaxIdleAtoms) :
            graph = populateIdle(NewRelationalGraph(StartTime), ids, 1, StartTime)
    /\ decayStats = NewDecayStatistics
    /\ nsfState = startNSF_Flowmeter(NewNSFState)
    /\ timers = setInterval(NoTimers, "sekundnik")
    /\ engine = NewMetaCognitiveNSFEngine
    /\ running = Idle
    /\ last = [op |-> "new"]
    /\ steps = 0

NextIdle == IdleTick

\* setInterval fires the callback again and again while the timer is live: weak
\* fairness of IdleTick.  A tick always raises cycleCount, so ENABLED <<IdleTick>>_vars
\* is IdleTickEnabled, and the fairness condition is written with it.
FairIdleTick == []<>(~IdleTickEnabled) \/ []<><<IdleTick>>_vars

SpecIdle == InitIdle /\ [][NextIdle]_vars /\ FairIdleTick

----------------------------------------------------------------------------
(* One atom under the functions that work on a single atom: the decay of
   processAtomDecay, applyEmotionalBoost, applyOxidativeStress, activate.  The
   atom is the only one of its graph. *)

MaxCalls == 2

\* tag lists: none, tags of the table, tags the table does not have, mixtures, and
\* a list long enough for the cap of the weight multiplier
AtomTagLists ==
    { <<>>,
      <<"ISKRA_ZYCIA">>,
      <<"SEKUNDNIK">>,
      <<"NIEZNANY">>,
      <<"NIEZNANY", "OBCY">>,
      <<"BRAK_WIARY_I_NADZIEI">>,
      <<"BRAK_WIARY_I_NADZIEI", "POSWIECENIE">>,
      <<"OBCY", "NIEUGIETA_BEZSILNOSC">>,
      <<"NIEUGIETA_BEZSILNOSC", "SEKUNDNIK">>,
      <<"ISKRA_ZYCIA", "ISKRA_ZYCIA", "ISKRA_ZYCIA", "ISKRA_ZYCIA", "ISKRA_ZYCIA", "ISKRA_ZYCIA">> }

AtomWeights == {0, WScale \div 200, WScale, 10 * WScale}

\* totalActivatedAtoms: none, at 80% of MAX_ACTIVE_ATOMS, between 80% and 100%, at
\* 100%, above, and beyond twice
ActivatedCounts ==
    { 0, (8 * MAX_ACTIVE_ATOMS) \div 10, (9 * MAX_ACTIVE_ATOMS) \div 10, MAX_ACTIVE_ATOMS,
      (3 * MAX_ACTIVE_ATOMS) \div 2, 3 * MAX_ACTIVE_ATOMS }

\* the atom the calls are made on
theAtom == graph.atoms[1]

CalledOnAtom == steps < MaxCalls /\ steps' = steps + 1

withAtom(g, atom) == [g EXCEPT !.atoms[1] = atom]

\* processAtomDecay(atom, graph)
ProcessAtomDecay ==
    /\ CalledOnAtom
    /\ LET returns(result) ==
                /\ graph' = withAtom(graph, result.atom)
                /\ last' = [op |-> "processAtomDecay", before |-> theAtom,
                            decayApplied |-> result.decayApplied]
       IN returns(processAtomDecay(theAtom, now))
    /\ UNCHANGED <<now, decayStats, nsfState, timers, engine, running>>

\* applyEmotionalBoost(senseAtom, detectedPierwiastki)
ApplyEmotionalBoost(detectedPierwiastki) ==
    /\ CalledOnAtom
    /\ graph' = withAtom(graph, applyEmotionalBoost(theAtom, detectedPierwiastki, now))
    /\ last' = [op |-> "applyEmotionalBoost", before |-> theAtom,
                detectedPierwiastki |-> detectedPierwiastki]
    /\ UNCHANGED <<now, decayStats, nsfState, timers, engine, running>>

\* applyOxidativeStress(senseAtom, totalActivatedAtoms)
ApplyOxidativeStress(totalActivatedAtoms) ==
    /\ CalledOnAtom
    /\ graph' = withAtom(graph, applyOxidativeStress(theAtom, totalActivatedAtoms))
    /\ last' = [op |-> "applyOxidativeStress", before |-> theAtom,
                totalActivatedAtoms |-> totalActivatedAtoms]
    /\ UNCHANGED <<now, decayStats, nsfState, timers, engine, running>>

\* atom.activate()
Activate ==
    /\ CalledOnAtom
    /\ graph' = withAtom(graph, activate(theAtom, now))
    /\ last' = [op |-> "activate", before |-> theAtom]
    /\ UNCHANGED <<now, decayStats, nsfState, timers, engine, running>>

\* the clock moves on between two calls
AtomIdles(d) ==
    /\ CalledOnAtom
    /\ now' = now + d
    /\ last' = [op |-> "advanceTime"]
    /\ UNCHANGED <<graph, decayStats, nsfState, timers, engine, running>>

InitAtom ==
    /\ now = StartTime
    /\ \E w \in AtomWeights, p \in AtomTagLists :
            graph = addAtom(NewRelationalGraph(StartTime), NewSenseAtom(1, w, p, StartTime),
                            StartTime)
    /\ decayStats = NewDecayStatistics
    /\ nsfState = NewNSFState
    /\ timers = NoTimers
    /\ engine = NewMetaCognitiveNSFEngine
    /\ running = Idle
    /\ last = [op |-> "new"]
    /\ steps = 0

NextAtom ==
    \/ ProcessAtomDecay
    \/ \E p \in AtomTagLists : ApplyEmotionalBoost(p)
    \/ \E n \in ActivatedCounts : ApplyOxidativeStress(n)
    \/ Activate
    \/ \E d \in Delays : AtomIdles(d)

SpecAtom == InitAtom /\ [][NextAtom]_vars

----------------------------------------------------------------------------
(* Properties of the Node Store, checked under Spec *)

hasEntry(g, a, b) == b \in DOMAIN g.atoms[a].connections
sameLink(g, a, b) ==
    /\ g.atoms[a].connections[b].strength = g.atoms[b].connections[a].strength
    /\ g.atoms[a].connections[b].type = g.atoms[b].connections[a].type

\* C1: in every reachable state adjacency is symmetric: atom A has an entry for B
\* exactly when atom B has an entry for A, and the two entries carry the same
\* strength and kind.
C1_AdjacencySymmetric ==
    \A a \in DOMAIN graph.atoms, b \in DOMAIN graph.atoms :
        /\ hasEntry(graph, a, b) <=> hasEntry(graph, b, a)
        /\ hasEntry(graph, a, b) /\ hasEntry(graph, b, a) => sameLink(graph, a, b)

\* C2: right after createConnection(A, B, S, K) has returned true, A holds an entry
\* for B and B holds an entry for A, both with strength S and kind K.
C2_ConnectionMirrored ==
    (last.op = "createConnection" /\ last.ret) =>
        /\ hasEntry(graph, last.sourceId, last.targetId)
        /\ hasEntry(graph, last.targetId, last.sourceId)
        /\ graph.atoms[last.sourceId].connections[last.targetId].strength = last.strength
        /\ graph.atoms[last.sourceId].connections[last.targetId].type = last.type
        /\ graph.atoms[last.targetId].connections[last.sourceId].strength = last.strength
        /\ graph.atoms[last.targetId].connections[last.sourceId].type = last.type

\* C2 witness: a successful createConnection between two distinct atoms that were
\* already connected with another strength.
C2_Witness ==
    /\ last.op = "createConnection" /\ last.ret
    /\ last.sourceId # last.targetId
    /\ last.previous # 0 /\ last.previous # last.strength

\* C3: no atom holds an entry keyed by an identity that is not in the graph; in
\* particular, after removeAtom(id) has returned true no remaining atom holds an
\* entry keyed by id.
C3_NoDanglingReference ==
    /\ \A a \in DOMAIN graph.atoms : DOMAIN graph.atoms[a].connections \subseteq DOMAIN graph.atoms
    /\ (last.op = "removeAtom" /\ last.ret) =>
            /\ ~hasAtom(graph, last.id)
            /\ \A a \in DOMAIN graph.atoms : ~hasEntry(graph, a, last.id)

\* C3 witness: removeAtom has returned true for an atom that another atom, still in
\* the graph, held an entry for.
C3_Witness ==
    /\ last.op = "removeAtom" /\ last.ret
    /\ last.referencedBy \cap DOMAIN graph.atoms # {}

edgeEntries(g) == SumConnections(g.atoms, g.order)

\* C9: running optimize twice in succession leaves the same set of atoms and the
\* same number of edges as running it once.
C9_OptimizeIdempotent ==
    LET once  == optimize(graph, now)
        twice == optimize(once, now)
    IN /\ DOMAIN twice.atoms = DOMAIN once.atoms
       /\ edgeEntries(twice) = edgeEntries(once)

\* C10: fromJSON(toJSON(g)) holds the same identities as g, each with the same
\* weight and the same neighbours, with the same strength and kind per edge.
C10_RoundTrip ==
    LET copy == fromJSON(toJSON(graph), now)
    IN /\ size(copy) = size(graph)
       /\ DOMAIN copy.atoms = DOMAIN graph.atoms
       /\ \A a \in DOMAIN graph.atoms :
            /\ copy.atoms[a].senseWeight = graph.atoms[a].senseWeight
            /\ DOMAIN copy.atoms[a].connections = DOMAIN graph.atoms[a].connections
            /\ \A b \in DOMAIN graph.atoms[a].connections :
                /\ copy.atoms[a].connections[b].strength = graph.atoms[a].connections[b].strength
                /\ copy.atoms[a].connections[b].type = graph.atoms[a].connections[b].type

\* C10 witness: a graph of two connected atoms, one of which has decayed below its
\* initial weight.
C10_Witness ==
    /\ size(graph) >= 2
    /\ \E a \in DOMAIN graph.atoms :
        /\ graph.atoms[a].senseWeight # graph.atoms[a].baseSenseWeight
        /\ \E b \in DOMAIN graph.atoms \ {a} : hasEntry(graph, a, b)

----------------------------------------------------------------------------
(* Properties of the Decay Pass, checked under SpecDecay and Spec *)

\* the atom as processAtomDecay leaves it in the pass that last ran
decayed(id) == processAtomDecay(last.before.atoms[id], now).atom

\* C4: after an applyDecay call every atom still in the graph has a weight of at
\* least 0, also when the effective decay rate computed for it exceeds 1.
C4_WeightNeverNegative ==
    last.op = "applyDecay" =>
        \A id \in DOMAIN graph.atoms : graph.atoms[id].senseWeight >= 0

\* C4 witness: applyDecay has run over an atom of positive weight whose effective
\* decay rate exceeded 1, and the atom is still in the graph.
C4_Witness ==
    /\ last.op = "applyDecay"
    /\ \E id \in DOMAIN graph.atoms \cap DOMAIN last.before.atoms :
        /\ last.before.atoms[id].senseWeight > 0
        /\ effectiveDecayRate(last.before.atoms[id], now) > RScale

\* the decay coefficient r2 is exactly half of r1
isHalf(r2, r1) == 2 * r2[1] * r1[2] = r1[1] * r2[2]

\* the atoms promoted by the applyDecay call that last ran carry the time of the
\* call and exactly half the coefficient they had when the call was made
PromotionHalves ==
    last.op = "applyDecay" =>
        \A id \in last.consolidated :
            /\ hasAtom(graph, id)
            /\ graph.atoms[id].consolidationTime = now
            /\ isHalf(graph.atoms[id].decayRate, last.before.atoms[id].decayRate)

\* no step takes the promotion timestamp away from an atom that stays in the graph
StaysPromoted ==
    \A id \in DOMAIN graph.atoms \cap DOMAIN graph'.atoms :
        graph.atoms[id].consolidationTime # 0 => graph'.atoms[id].consolidationTime # 0

\* C5: a promotion sets consolidationTime and leaves the atom with exactly half the
\* decay coefficient it had before, and no later operation (decay pass, cycle with
\* its excitation, emotional boost and PFC rules, optimize) returns a promoted atom
\* to the unpromoted state.
C5_PromotionMonotonic == []PromotionHalves /\ [][StaysPromoted]_vars

\* C5 witness: a cycle (decay pass, excitation, emotional boost, PFC rules) has run
\* over an altruistic atom that an earlier pass had promoted.
C5_Witness ==
    /\ last.op = "cycle"
    /\ \E id \in DOMAIN graph.atoms \cap DOMAIN last.before.atoms :
        /\ last.before.atoms[id].consolidationTime # 0
        /\ graph.atoms[id].consolidationTime # 0
        /\ hasTagIn(graph.atoms[id], altruisticTags)
        /\ graph.atoms[id].amygdalaActivationLevel # NoLevel

\* C6: promotion is a one-time transition: a decay pass promotes only atoms that
\* were not promoted before, so the timestamp is written once and the coefficient
\* is halved once.
C6_PromotedOnce ==
    last.op \in {"applyDecay", "cycle"} =>
        \A id \in last.consolidated : last.before.atoms[id].consolidationTime = 0

\* C7: an atom that has at least 5 connections and a weight below the removal floor
\* when applyDecay is invoked is still in the graph when the call returns.
C7_HubSurvivesDecay ==
    last.op = "applyDecay" =>
        \A id \in DOMAIN last.before.atoms :
            (/\ connectionsSize(last.before.atoms[id]) >= 5
             /\ last.before.atoms[id].senseWeight < MIN_SENSE_WEIGHT)
                => hasAtom(graph, id)

\* C8: an atom that is gone when applyDecay returns had a post-decay weight below
\* the removal floor and none of the protections; an atom that is protected, or
\* whose post-decay weight is at or above the floor, is still in the graph.
C8_RemovedOnlyUnprotectedBelowFloor ==
    last.op = "applyDecay" =>
        \A id \in DOMAIN last.before.atoms :
            ~hasAtom(graph, id) =>
                /\ decayed(id).senseWeight < MIN_SENSE_WEIGHT
                /\ ~isProtectedFromRemoval(decayed(id), now)

----------------------------------------------------------------------------
(* Failure returns of the Node Store, checked under Spec *)

\* the call that this step makes names an identity that is not in the graph
CallOnAbsent ==
    \/ /\ last'.op = "createConnection"
       /\ ~hasAtom(graph, last'.sourceId) \/ ~hasAtom(graph, last'.targetId)
    \/ /\ last'.op = "removeAtom"
       /\ ~hasAtom(graph, last'.id)

\* C11: createConnection with a source or target that is not in the graph, and
\* removeAtom with an identity that is not in the graph, return false and leave the
\* graph (atoms, connections, clusters, statistics) as it was.
C11_AbsentIsNoOp == [][CallOnAbsent => (~last'.ret /\ graph' = graph)]_vars

\* C11 witness: createConnection has returned false for a source that is in the
\* graph and a target that is not, after the clock has moved on.
C11_Witness ==
    /\ last.op = "createConnection" /\ ~last.ret
    /\ hasAtom(graph, last.sourceId) /\ ~hasAtom(graph, last.targetId)
    /\ graph.statistics.lastUpdate < now

----------------------------------------------------------------------------
(* The aggregate statistics, checked under Spec *)

\* the undirected edges of the graph: the pairs of atoms joined by an entry on
\* either side (a pair {a, a} is a loop)
undirectedEdges(g) ==
    {{p[1], p[2]} : p \in {q \in (DOMAIN g.atoms) \X Ids :
                                q[2] \in DOMAIN g.atoms[q[1]].connections}}

\* the last call was one the statistics are recomputed after
MutatedGraph ==
    \/ last.op \in {"addAtom", "optimize"}
    \/ last.op \in {"removeAtom", "createConnection"} /\ last.ret

AtomCountExact == graph.statistics.totalAtoms = size(graph)

\* totalConnections is kept in halves
EdgeCountExact ==
    graph.statistics.totalConnections = 2 * Cardinality(undirectedEdges(graph))

MeanWeightExact ==
    graph.statistics.averageWeight =
        IF size(graph) = 0 THEN 0 ELSE SumWeights(graph.atoms, graph.order) \div size(graph)

\* C15: after addAtom, a successful removeAtom, a successful createConnection or
\* optimize, getStatistics() reports totalAtoms equal to the number of atoms,
\* totalConnections equal to the number of undirected edges and averageWeight
\* equal to the mean atom weight
C15_StatisticsExact ==
    MutatedGraph => AtomCountExact /\ EdgeCountExact /\ MeanWeightExact

----------------------------------------------------------------------------
(* One decay pass on a long-idle atom, checked under Spec *)

\* weight 1.0, decay coefficient 0.05, no tags, no emotional level, no connections,
\* never activated, last accessed more than 30 days before t
LongIdlePlainAtom(atom, t) ==
    /\ atom.senseWeight = WScale
    /\ 20 * atom.decayRate[1] = atom.decayRate[2]
    /\ atom.detectedPierwiastki = <<>>
    /\ atom.amygdalaActivationLevel = NoLevel
    /\ connectionsSize(atom) = 0
    /\ atom.totalActivations = 0
    /\ t - atom.lastAccessTime > 30 * TicksPerDay

\* C17: for an atom of weight 1.0 and decay coefficient 0.05, with no tags, no
\* emotional level, no connections and no activations, last accessed more than 30
\* days ago, one applyDecay pass uses the effective rate 0.10 and leaves the atom
\* in the graph with weight 0.90
C17_LongIdleDecay ==
    last.op = "applyDecay" =>
        \A id \in DOMAIN last.before.atoms :
            LongIdlePlainAtom(last.before.atoms[id], now) =>
                /\ effectiveDecayRate(last.before.atoms[id], now) = RScale \div 10
                /\ id \notin last.removed
                /\ hasAtom(graph, id)
                /\ graph.atoms[id].senseWeight = (9 * WScale) \div 10

\* a decay pass has just processed such an atom
C17_Witness ==
    /\ last.op = "applyDecay"
    /\ \E id \in DOMAIN last.before.atoms :
            /\ LongIdlePlainAtom(last.before.atoms[id], now)
            /\ hasAtom(graph, id)
            /\ graph.atoms[id].senseWeight = (9 * WScale) \div 10

----------------------------------------------------------------------------
(* The decay coefficient over a run of ticks, checked under SpecTicks *)

\* C16: in every state reached by running ticks (decay pass with promotion,
\* excitation, emotional boost, altruistic and negative rules) on atoms created
\* with the default decay coefficient, every atom's decay coefficient lies in
\* the interval [0, 1]
C16_DecayRateInUnitInterval ==
    \A id \in DOMAIN graph.atoms :
        /\ graph.atoms[id].decayRate[1] >= 0
        /\ FracLeq(graph.atoms[id].decayRate, <<1, 1>>)

----------------------------------------------------------------------------
(* Properties of the single-atom functions, checked under SpecAtom *)

\* the atom as the last call found it
calledOn == last.before

\* the tags of the atom that the weight table has
tableTags(atom) == Range(atom.detectedPierwiastki) \cap DOMAIN NS_WEIGHTS

\* a tag list that stands for the atom's: its most protective table tag alone, or
\* no tag when the table has none of its tags
mostProtectiveTag(atom) ==
    IF tableTags(atom) = {} THEN <<>>
    ELSE << CHOOSE p \in tableTags(atom) :
                \A q \in tableTags(atom) : NS_WEIGHTS[p].decayModifier <= NS_WEIGHTS[q].decayModifier >>

\* C23: in the decay of an atom the tag-based modifier is the minimum decayModifier
\* over the atom's tags that the weight table has: the rate applied is the rate of
\* the same atom carrying only its most protective table tag; an atom whose tags
\* are all unknown decays at the rate of the same atom without tags; and an atom
\* with a tag of decayModifier 0 loses no weight
C23_MinimumOverKnownTags ==
    last.op = "processAtomDecay" =>
        /\ last.decayApplied =
                effectiveDecayRate([calledOn EXCEPT !.detectedPierwiastki = mostProtectiveTag(calledOn)],
                                   now)
        /\ tableTags(calledOn) = {} =>
                /\ last.decayApplied =
                        effectiveDecayRate([calledOn EXCEPT !.detectedPierwiastki = <<>>], now)
                /\ theAtom.senseWeight = decayedWeight(calledOn.senseWeight,
                        effectiveDecayRate([calledOn EXCEPT !.detectedPierwiastki = <<>>], now))
        /\ (\E p \in tableTags(calledOn) : NS_WEIGHTS[p].decayModifier = 0) =>
                /\ last.decayApplied = 0
                /\ theAtom.senseWeight = calledOn.senseWeight

\* an atom of weight 1.0 tagged with unknown tags only has been decayed: it lost
\* weight, at the rate of an untagged atom
C23_Witness ==
    /\ last.op = "processAtomDecay"
    /\ calledOn.detectedPierwiastki = <<"NIEZNANY", "OBCY">>
    /\ calledOn.senseWeight = WScale
    /\ last.decayApplied > 0
    /\ theAtom.senseWeight < WScale

\* C26: applyOxidativeStress reduces and never increases an atom's weight: for
\* every totalActivatedAtoms the weight after the call is at most the weight
\* before, and it is unchanged when totalActivatedAtoms is at most
\* 0.8 x MAX_ACTIVE_ATOMS
C26_StressNeverIncreasesWeight ==
    last.op = "applyOxidativeStress" =>
        /\ theAtom.senseWeight <= calledOn.senseWeight
        /\ theAtom.senseWeight >= 0
        /\ 10 * last.totalActivatedAtoms <= 8 * MAX_ACTIVE_ATOMS => theAtom = calledOn

\* C27: for a non-empty tag list applyEmotionalBoost multiplies the weight by a
\* factor from 1.0 to 3.0 and never increases the decay coefficient: the new
\* coefficient is the old one, or a smaller value that is at least
\* MIN_SENSE_WEIGHT / 10; with an empty tag list the atom is unchanged
C27_BoostWithinBounds ==
    last.op = "applyEmotionalBoost" =>
        IF last.detectedPierwiastki = <<>>
        THEN theAtom = calledOn
        ELSE /\ theAtom.senseWeight >= calledOn.senseWeight
             /\ theAtom.senseWeight <= 3 * calledOn.senseWeight
             /\ FracLeq(theAtom.decayRate, calledOn.decayRate)
             /\ \/ theAtom.decayRate = calledOn.decayRate
                \/ FracLeq(<<MIN_SENSE_WEIGHT, 10 * WScale>>, theAtom.decayRate)

\* an atom of weight 1.0 has been boosted with six ISKRA_ZYCIA tags, whose
\* uncapped multiplier is 3.1: its weight is 3.0 and its coefficient 0.001
C27_Witness ==
    /\ last.op = "applyEmotionalBoost"
    /\ Len(last.detectedPierwiastki) = 6
    /\ calledOn.senseWeight = WScale
    /\ theAtom.senseWeight = 3 * WScale
    /\ theAtom.decayRate = <<1, 1000>>
    /\ calledOn.decayRate = <<1, 20>>

----------------------------------------------------------------------------
(* Properties of the Sekundnik driver, checked under SpecDriver *)

\* the phase step that precedes each phase step of a tick
precedingStep(op) ==
    CASE op = "phase1" -> "tick"
      [] op = "phase2" -> "phase1"
      [] op = "phase3" -> "phase2"
      [] op = "phase4" -> "phase3"
      [] op = "phase5" -> "phase4"

PhaseSteps == {"phase1", "phase2", "phase3", "phase4", "phase5"}

\* a throw ends the callback and leaves the timers as they are, the timer that
\* fired still scheduled
CaughtInCallback ==
    last'.op = "caught" /\ last' # last =>
        /\ running' = Idle
        /\ timers' = timers
        /\ last'.timer \in liveTimers(timers', "sekundnik")

\* a phase runs only right after the phase before it, so no phase runs after a throw
\* until the timer fires again
PhasesInOrder ==
    last'.op \in PhaseSteps /\ last' # last => last.op = precedingStep(last'.op)

\* a timer goes from live to cancelled only in stopNSF_Flowmeter, called by a
\* caller or by the engine's stopIntegratedSystem
OnlyStopCancels ==
    \A h \in DOMAIN timers :
        timers[h].live /\ ~timers'[h].live =>
            \/ last'.op = "stopNSF_Flowmeter" /\ last'.timer = h
            \/ last'.op = "stopIntegratedSystem"

\* C12: when a phase of a tick throws, the error is caught in the callback, the
\* remaining phases of that tick do not run, and the timer stays scheduled; a
\* timer is cancelled only by an explicit stop
C12_ThrowKeepsTimerLive ==
    [][CaughtInCallback /\ PhasesInOrder /\ OnlyStopCancels]_vars

\* the timer has fired again after a tick whose first phase threw
C12_Witness ==
    /\ last.op = "tick"
    /\ nsfState.cycleCount = 2
    /\ decayStats = NewDecayStatistics
    /\ Len(timers) = 1

\* startNSF_Flowmeter was called once and stopNSF_Flowmeter was called with the
\* timer it returned
StoppedOnce == Len(timers) = 1 /\ timers[1].kind = "sekundnik" /\ ~timers[1].live

\* no step of a tick: the callback is not entered and no phase runs (the cycle
\* counter changes only when resetNSF zeroes it)
NoTickStep ==
    /\ running' = Idle
    /\ graph' = graph
    /\ decayStats' = decayStats
    /\ \/ nsfState'.cycleCount = nsfState.cycleCount
       \/ last'.op = "resetNSF" /\ nsfState'.cycleCount = 0

\* C13: once startNSF_Flowmeter has been called once and stopNSF_Flowmeter has
\* been called with the returned timer, isActive is false and no tick executes:
\* the driver changes neither the cycle counter nor the graph again
C13_StoppedStaysStopped ==
    /\ [](StoppedOnce => ~nsfState.isActive /\ running = Idle)
    /\ [][StoppedOnce => NoTickStep]_vars

\* the driver ran a whole tick, was stopped, and a caller has acted since
C13_Witness ==
    /\ StoppedOnce
    /\ nsfState.cycleCount = 1
    /\ nsfState.lastProcessingTime = now
    /\ last.op = "setCurrentQuery"

\* the next step belongs to the tick that is running: one of its phases, or the
\* catch that ends it
StepOfRunningTick ==
    /\ last'.op \in PhaseSteps \cup {"caught"}
    /\ running' = Idle \/ (running'.callback = "tick" /\ running'.timer = running.timer)

\* C14: ticks do not overlap and a tick is atomic: from the start of a tick to its
\* end no other tick, no setCurrentQuery, no introspection callback and no
\* auto-optimization callback runs
C14_TickAtomic ==
    [][running.callback = "tick" => StepOfRunningTick]_vars

\* a tick is in its third phase while a second Sekundnik timer, the introspection
\* timer and the auto-optimization timer are all scheduled
C14_Witness ==
    /\ InPhase(3)
    /\ Cardinality(liveTimers(timers, "sekundnik")) = 2
    /\ liveTimers(timers, "introspection") # {}
    /\ liveTimers(timers, "autoOptimization") # {}

\* the word "miłość"
Milosc == <<"m", "i", "l/", "o", "s'", "c'">>

\* the excitation pass of a tick has just run with a query that contains the word
ExcitedWithMilosc == last.op = "phase2" /\ includes(last.query, Milosc)

\* the atom as the pass found it
excitedFrom(id) == last.before.atoms[id]

\* C18: an excitation pass with a query containing "miłość" detects
\* ALGORYTM_ZAKOCHANIA; an atom carrying that tag has its weight multiplied by
\* 1 + overlap / (number of tags derived from the query) and its access timestamp
\* refreshed, and an atom whose tags do not meet the derived tags keeps its weight
\* and its timestamp
C18_ExcitationBoostsMatching ==
    ExcitedWithMilosc =>
        LET derived == detectPierwiastkiInQuery(last.query)
        IN /\ Contains(derived, "ALGORYTM_ZAKOCHANIA")
           /\ DOMAIN graph.atoms = DOMAIN last.before.atoms
           /\ \A id \in DOMAIN graph.atoms :
                IF Contains(excitedFrom(id).detectedPierwiastki, "ALGORYTM_ZAKOCHANIA")
                THEN /\ graph.atoms[id].senseWeight =
                            MulDiv(excitedFrom(id).senseWeight,
                                   Len(derived) + Cardinality(Range(excitedFrom(id).detectedPierwiastki)
                                                                \cap Range(derived)),
                                   Len(derived))
                     /\ graph.atoms[id].lastAccessTime = now
                ELSE Range(excitedFrom(id).detectedPierwiastki) \cap Range(derived) = {} =>
                        graph.atoms[id] = excitedFrom(id)

\* the graph holds one atom tagged ALGORYTM_ZAKOCHANIA and one atom tagged
\* POSWIECENIE: the pass has raised the weight of the first by half and refreshed
\* its timestamp, and has left the second, last accessed earlier, as it was
C18_Witness ==
    /\ ExcitedWithMilosc
    /\ Len(detectPierwiastkiInQuery(last.query)) = 2
    /\ DOMAIN graph.atoms = {1, 3}
    /\ graph.atoms[1].senseWeight > excitedFrom(1).senseWeight
    /\ 2 * graph.atoms[1].senseWeight = 3 * excitedFrom(1).senseWeight
    /\ graph.atoms[1].lastAccessTime = now
    /\ excitedFrom(1).lastAccessTime < now
    /\ graph.atoms[3] = excitedFrom(3)
    /\ graph.atoms[3].lastAccessTime < now

\* the excitation pass of a tick has just run with no query set
ExcitedSpontaneously == last.op = "phase2" /\ last.query = NoQuery

\* the atoms the pass returned
activatedIds == Range(running.activatedAtoms)

\* C19: with no query, the excitation pass takes the (at most three) atoms of
\* highest weight, refreshes their access timestamps and records them as active;
\* it modifies no weight, and the atoms outside the top three are unchanged
C19_SpontaneousTopThree ==
    ExcitedSpontaneously =>
        /\ DOMAIN graph.atoms = DOMAIN last.before.atoms
        /\ Cardinality(activatedIds) = Min(3, size(last.before))
        /\ \A a \in activatedIds, b \in DOMAIN graph.atoms \ activatedIds :
                excitedFrom(a).senseWeight >= excitedFrom(b).senseWeight
        /\ \A a \in activatedIds :
                /\ graph.atoms[a] = [excitedFrom(a) EXCEPT !.lastAccessTime = now]
                /\ a \in nsfState.activeAtoms
        /\ \A b \in DOMAIN graph.atoms \ activatedIds : graph.atoms[b] = excitedFrom(b)

\* the graph holds five atoms: three were refreshed, and an atom outside them,
\* last accessed earlier, is as the pass found it
C19_Witness ==
    /\ ExcitedSpontaneously
    /\ size(graph) = 5
    /\ Cardinality(activatedIds) = 3
    /\ \A a \in activatedIds :
            graph.atoms[a].lastAccessTime = now /\ excitedFrom(a).lastAccessTime < now
    /\ \E b \in DOMAIN graph.atoms \ activatedIds : graph.atoms[b].lastAccessTime < now

\* the post-processing step of a tick has just run
PostProcessed == last.op = "phase4"

\* the atom as the step found it
processedFrom(id) == last.before.atoms[id]

\* fraction r1 is fraction r0 times n / d
rateScaled(r1, r0, n, d) == r1[1] * r0[2] * d = r0[1] * n * r1[2]

\* the step left everything but the weight and the decay coefficient of the atom
onlyWeightAndRate(id) ==
    [graph.atoms[id] EXCEPT !.senseWeight = processedFrom(id).senseWeight,
                            !.decayRate = processedFrom(id).decayRate] = processedFrom(id)

\* what the rules do to one atom: x1.2 weight and x0.8 decay for an altruistic tag,
\* x1.5 decay for a negative tag
rulesApplied(id) ==
    LET altruistic == hasTagIn(processedFrom(id), altruisticTags)
        negative   == hasTagIn(processedFrom(id), negativeTags)
    IN /\ onlyWeightAndRate(id)
       /\ graph.atoms[id].senseWeight =
                IF altruistic THEN (12 * processedFrom(id).senseWeight) \div 10
                ELSE processedFrom(id).senseWeight
       /\ rateScaled(graph.atoms[id].decayRate, processedFrom(id).decayRate,
                     (IF altruistic THEN 8 ELSE 10) * (IF negative THEN 15 ELSE 10), 100)

\* C20 as stated: in the post-processing step of a tick every node in the graph
\* carrying an altruistic tag has its weight multiplied by 1.2 and its decay
\* coefficient by 0.8, every node carrying a negative tag has its decay
\* coefficient multiplied by 1.5, and nodes carrying none of these tags are not
\* modified
C20_RulesOnEveryNode ==
    PostProcessed =>
        /\ DOMAIN graph.atoms = DOMAIN last.before.atoms
        /\ \A id \in DOMAIN graph.atoms : rulesApplied(id)

\* C20, amended: the rules apply to the nodes the tick's excitation pass activated;
\* an activated node carrying an altruistic tag has its weight multiplied by 1.2
\* and its decay coefficient by 0.8, an activated node carrying a negative tag has
\* its decay coefficient multiplied by 1.5, and every other node is not modified
C20_RulesOnActivatedNodes ==
    PostProcessed =>
        /\ DOMAIN graph.atoms = DOMAIN last.before.atoms
        /\ \A id \in DOMAIN graph.atoms :
                IF id \in Range(last.activatedAtoms)
                THEN rulesApplied(id)
                ELSE graph.atoms[id] = processedFrom(id)

\* the step has rewarded an activated altruistic atom, penalized an activated
\* negative atom and passed over an altruistic atom that was not activated
C20_Witness ==
    /\ PostProcessed
    /\ \E a \in Range(last.activatedAtoms) :
            /\ hasTagIn(processedFrom(a), altruisticTags)
            /\ graph.atoms[a].senseWeight > processedFrom(a).senseWeight
            /\ graph.atoms[a].decayRate # processedFrom(a).decayRate
    /\ \E n \in Range(last.activatedAtoms) :
            /\ hasTagIn(processedFrom(n), negativeTags)
            /\ ~FracLeq(graph.atoms[n].decayRate, processedFrom(n).decayRate)
    /\ \E u \in DOMAIN graph.atoms \ Range(last.activatedAtoms) :
            /\ hasTagIn(processedFrom(u), altruisticTags)
            /\ graph.atoms[u] = processedFrom(u)

\* C21: for every interleaving of startNSF_Flowmeter, stopNSF_Flowmeter and
\* resetNSF, isActive is true exactly when a tick timer is live (so no tick fires
\* while isActive is false), and at most one tick timer is live at any time
C21_ActiveIffOneTimerLive ==
    /\ nsfState.isActive <=> liveTimers(timers, "sekundnik") # {}
    /\ Cardinality(liveTimers(timers, "sekundnik")) <= 1
    /\ running.callback = "tick" => nsfState.isActive

\* startIntegratedSystem was called once, stopIntegratedSystem has returned, and
\* nothing else has been started
EngineStopped ==
    /\ Len(timers) = 3
    /\ timers[1].kind = "sekundnik"
    /\ timers[2].kind = "introspection"
    /\ timers[3].kind = "autoOptimization"
    /\ ~engine.isActive
    /\ engine.nsfTimer = 0

\* no periodic callback is entered
NoCallbackFires == last' # last => last'.op \notin {"tick", "introspection", "autoOptimization"}

\* C22: after stopIntegratedSystem has returned, none of the periodic callbacks
\* started by startIntegratedSystem (main tick, introspection, auto-optimization)
\* fires again, so timers change neither the meta-state nor the graph
C22_StoppedEngineIsQuiet ==
    [][EngineStopped => NoCallbackFires /\ graph' = graph]_vars

\* the step is a run of the introspection or of the auto-optimization callback
MetaCallbackRuns ==
    steps' # steps /\ last'.op \in {"introspection", "autoOptimization"}

\* C28: the introspection callback and the auto-optimization callback only read
\* the Node Store: each leaves the set of atoms and every atom (weight, decay
\* coefficient, timestamps, connections) unchanged; among the periodic callbacks
\* only the main tick changes the graph
C28_MetaCallbacksReadOnly ==
    [][/\ MetaCallbackRuns => graph' = graph
       /\ graph' # graph => running.callback = "tick"]_vars

\* the auto-optimization callback has run after an introspection that found an
\* atom at level EXTREME, left there by a tick
C28_Witness ==
    /\ last.op = "autoOptimization"
    /\ engine.performanceHistory = 1
    /\ engine.emotionalStability = 80
    /\ \E id \in DOMAIN graph.atoms : graph.atoms[id].amygdalaActivationLevel = "EXTREME"

----------------------------------------------------------------------------
(* Properties of a run of ticks, checked under SpecTicks *)

\* C29: no phase of a tick changes an atom's activation counter: every atom that
\* survives a tick has the totalActivations it had before the tick (only
\* activate() increments it)
C29_TicksKeepActivationCount ==
    [][\A id \in DOMAIN graph.atoms \cap DOMAIN graph'.atoms :
            graph'.atoms[id].totalActivations = graph.atoms[id].totalActivations]_vars

\* after two ticks an atom that was activated three times before the driver
\* started, and that the ticks have excited and boosted, still counts three
C29_Witness ==
    /\ nsfState.cycleCount = 2
    /\ \E id \in DOMAIN graph.atoms :
            /\ graph.atoms[id].totalActivations = MinActivations
            /\ id \in nsfState.activeAtoms
            /\ graph.atoms[id].emotionalBoostApplied

\* C25: atoms created with a weight in [0, 10] keep a semantic weight within
\* [0.0, 10.0] in every state reachable by running ticks
C25_WeightWithinRange ==
    \A id \in DOMAIN graph.atoms :
        /\ graph.atoms[id].senseWeight >= 0
        /\ graph.atoms[id].senseWeight <= 10 * WScale

\* C30: export followed by import drops the promotion state: every atom of
\* fromJSON(toJSON(g)) has the default decay coefficient 0.05 and no promotion
\* timestamp, whatever they were in g
C30_ImportResetsDecayState ==
    LET copy == fromJSON(toJSON(graph), now)
    IN \A id \in DOMAIN copy.atoms :
            /\ copy.atoms[id].decayRate = Frac(5, 100)
            /\ copy.atoms[id].consolidationTime = 0

\* a graph holding a promoted atom whose decay coefficient is no longer 0.05
C30_Witness ==
    \E id \in DOMAIN graph.atoms :
        /\ graph.atoms[id].decayRate # Frac(5, 100)
        /\ graph.atoms[id].consolidationTime # 0
        /\ id \in DOMAIN fromJSON(toJSON(graph), now).atoms

----------------------------------------------------------------------------
(* Properties of the driver left running with no query, checked under SpecIdle *)

\* the atom has a positive weight, no tags, no connections, no activation level,
\* zero activations and no promotion timestamp
IdleCandidate(id) ==
    /\ hasAtom(graph, id)
    /\ graph.atoms[id].senseWeight > 0
    /\ Len(graph.atoms[id].detectedPierwiastki) = 0
    /\ connectionsSize(graph.atoms[id]) = 0
    /\ graph.atoms[id].amygdalaActivationLevel = NoLevel
    /\ graph.atoms[id].totalActivations = 0
    /\ graph.atoms[id].consolidationTime = 0

====
